---- MODULE Spec2Model ----
(***************************************************************************)
(* freesper: the inference engine's decode loops (greedyTransducerDecode,  *)
(* autoregressiveDecode), feature-length normalisation                     *)
(* (padFeaturesToWhisperLength), model loading and cleanup (loadModel,     *)
(* cleanup), the Python subprocess calls (transcribeSherpaOnnx,            *)
(* transcribeNeMo, extractFeatures, extractFeaturesForTransducer), the     *)
(* main process's recording / transcription handlers, the stored           *)
(* transcription history and the settings view's hotkey capture, as state  *)
(* machines.                                                               *)
(***************************************************************************)
EXTENDS Integers, Sequences, FiniteSets, TLC

(***************************************************************************)
(* Bounds of the model.                                                    *)
(***************************************************************************)
\* longest tokens.txt vocabulary that is enumerated
MaxVocab == 2
\* encoder lengths 0..MaxShortT are decoded under every joiner response
MaxShortT == 3
\* a long encoder output, enough frames for the 500-token limit to be reached
LongT == 51
\* finite logits are 0..MaxLogit
MaxLogit == 1
\* the mel-bin count padFeaturesToWhisperLength requires (80 in the source,
\* line 1204), scaled down to keep the tensors small
WHISPER_N_MELS == 2
\* the frame count it pads or truncates to (3000 in the source, line 1205),
\* scaled down likewise
WHISPER_TIME_STEPS == 3
\* largest batch dimension of a feature tensor
MaxBatch == 2
\* feature tensors have up to WHISPER_TIME_STEPS + MaxExtraFrames frames
MaxExtraFrames == 2
\* audio-data-recorded handlers that can be suspended at the same time
MaxHandlers == 2
\* stop-audio-recording messages the renderer has not answered yet
MaxStopRequests == 2
\* startRecording calls suspended in showRecordingWindow
MaxStarting == 1
\* loadModel calls made on one engine
MaxLoads == 2
\* recordings handled by the audio-data-recorded handler
MaxRecordings == 4
\* autoConvert calls
MaxWorkflows == 3
\* lines a subprocess writes to stdout
MaxStdoutLines == 2
\* largest rank of the output tensor of a single-graph model
MaxRank == 4
\* addToHistory calls in a run
MaxAdds == 52
\* hotkeys saved in a run
MaxSaves == 2

(***************************************************************************)
(* Program constants.                                                      *)
(***************************************************************************)
\* -Infinity, the initial running maximum: below every finite logit
NegInf == -1
\* inferenceEngine.js:729
maxSteps == 500
\* inferenceEngine.js:762, the literal bound of the inner while loop
maxInnerSteps == 10
\* inferenceEngine.js:728, the blank ID used when no token list is loaded
defaultBlankId == 8192
\* inferenceEngine.js:800, the vocabulary size used when no token list is loaded
defaultDecoderVocabSize == 8193

\* inferenceEngine.js:1030
maxLength == 448
\* inferenceEngine.js:1033-1038, the Whisper special tokens
SOT == 50258
EOT == 50257
LANG_EN == 50259
LANG_FR == 50265
TRANSCRIBE == 50359
NO_TIMESTAMPS == 50363

VARIABLES
    tokens,   \* this.tokens: [null |-> BOOLEAN, length |-> Nat]
    td,       \* the frame of one greedyTransducerDecode call
    ar,       \* the frame of one autoregressiveDecode call
    pad,      \* the frame of one padFeaturesToWhisperLength call
    isLoaded,      \* inferenceEngine.isLoaded
    isRecording,   \* main.js:83
    isProcessing,  \* main.js:84
    starting,      \* startRecording calls suspended at await showRecordingWindow()
    stopRequests,  \* stop-audio-recording messages sent, not yet answered
    handlers,      \* the suspended audio-data-recorded handlers, by slot
    returned,      \* what the audio-data-recorded handler returned last, and its effects
    engine,        \* the InferenceEngine's fields (sessions are named by the load that made them)
    ld,            \* the frame of one loadModel call
    lastCall,      \* the engine method that ran last: "constructor", "loadModel", "cleanup"
    sp,            \* the frame of one call that spawns a subprocess
    dispatched,    \* what transcribe did when called on the engine as it is now
    store,         \* electron-store: transcriptionHistory and hotkey
    added,         \* addToHistory calls so far
    hk,            \* the settings view's hotkey capture
    am,            \* the handlers that keep the activeModel setting: load-model, delete-model, auto-load
    tmp,           \* the temp directory and the recordings that are being handled
    cv             \* the AutoConverter and its autoConvert workflows

mainVars == <<isLoaded, isRecording, isProcessing, starting, stopRequests, handlers, returned>>

decodeVars == <<tokens, td, ar, pad>>

engineVars == <<engine, ld, lastCall, sp, dispatched>>

settingsVars == <<store, added, hk>>

appVars == <<am, tmp, cv>>

vars == <<decodeVars, mainVars, engineVars, settingsVars, appVars>>

Min(a, b) == IF a < b THEN a ELSE b

LogitVals == {NegInf} \cup (0 .. MaxLogit)

\* a joiner output tensor [1, 1, 1, n]: its dims and its flat data
LogitsTensor(data) == [dims |-> <<1, 1, 1, Len(data)>>, data |-> data]

LogitVectors(n) == [1 .. n -> LogitVals]

(***************************************************************************)
(* this.tokens as loadTransducerModel leaves it: null when tokens.txt is   *)
(* absent, else the non-empty first fields of its lines (possibly none).   *)
(***************************************************************************)
TokenLists ==
    {[null |-> TRUE, length |-> 0]}
        \cup {[null |-> FALSE, length |-> n] : n \in 0 .. MaxVocab}

(***************************************************************************)
(* greedyTransducerDecode                                                  *)
(***************************************************************************)
\* const blankId = this.tokens ? this.tokens.length - 1 : 8192
blankIdOf(toks) == IF toks.null THEN defaultBlankId ELSE toks.length - 1

\* const decoderVocabSize = this.tokens ? this.tokens.length : 8193
decoderVocabSizeOf(toks) == IF toks.null THEN defaultDecoderVocabSize ELSE toks.length

\* const vocabSize = logits.dims[logits.dims.length - 1]
vocabSizeOf(logits) == logits.dims[Len(logits.dims)]

\* a search over the whole joiner vocabulary
maxValidTokenWholeJoiner(logits, toks) == vocabSizeOf(logits)

\* const maxValidToken = Math.min(vocabSize, decoderVocabSize)
maxValidTokenOf(logits, toks) == Min(vocabSizeOf(logits), decoderVocabSizeOf(toks))

\* a comparison that lets a later equal entry win
BetterOrEqual(x, maxLogit) == x >= maxLogit

\* if (adjustedLogits[v] > maxLogit), if (lastTokenLogits[i] > maxLogit): the
\* strict comparison of both scans
Better(x, maxLogit) == x > maxLogit

\* for (let v = 0; v < limit; v++) if (data[v] > maxLogit) { maxLogit = data[v]; best = v }
RECURSIVE ArgmaxScan(_, _, _, _, _)
ArgmaxScan(data, v, limit, maxLogit, best) ==
    IF v >= limit THEN best
    ELSE IF v < Len(data) /\ Better(data[v + 1], maxLogit)
         THEN ArgmaxScan(data, v + 1, limit, data[v + 1], v)
         ELSE ArgmaxScan(data, v + 1, limit, maxLogit, best)

\* let maxLogit = -Infinity; let bestToken = blankId; then the scan of the valid range
bestTokenOf(logits, toks) ==
    ArgmaxScan(logits.data, 0, maxValidTokenOf(logits, toks), NegInf, blankIdOf(toks))

\* the joiner response that favours blank: the top logit at the blank index
\* when the joiner has that index, -Infinity everywhere else
BlankLogits(n, toks) ==
    [i \in 1 .. n |-> IF i - 1 = blankIdOf(toks) THEN MaxLogit ELSE NegInf]

\* the joiner session of a run: joinerLogits at every call, except that every
\* period-th call (period > 0) answers BlankLogits
joinerSessionRun(f, call) ==
    IF f.period > 0 /\ call % f.period = 0
    THEN LogitsTensor(BlankLogits(Len(f.joinerLogits), tokens))
    ELSE LogitsTensor(f.joinerLogits)

\* the decoder session of a run: outputs 'states' and '162' are the states of
\* this run (named by its number), or are absent
decoderSessionRun(f, call) == IF f.statesOut THEN call ELSE 0

\* the inputs of one call: the encoder length, the joiner and the decoder
TdShortInputs ==
    {[T |-> n, joinerLogits |-> jl, period |-> p, statesOut |-> so] :
        n \in 0 .. MaxShortT,
        jl \in UNION {LogitVectors(k) : k \in 1 .. MaxVocab + 1},
        p \in 0 .. 3,
        so \in BOOLEAN}

TdLongInputs ==
    {[T |-> LongT, joinerLogits |-> <<MaxLogit, 0>>, period |-> p, statesOut |-> TRUE] :
        p \in {0, 1, maxSteps}}

TdIdle ==
    [pc |-> "idle", T |-> 0, joinerLogits |-> <<>>, period |-> 0, statesOut |-> FALSE,
     tokenIds |-> <<>>, blankId |-> 0, prevToken |-> 0,
     decoderState1 |-> 0, decoderState2 |-> 0, t |-> 0,
     emittedThisFrame |-> FALSE, innerSteps |-> 0, encoderSlice |-> 0,
     targets |-> 0, newState1 |-> 0, newState2 |-> 0,
     logits |-> LogitsTensor(<<>>), bestToken |-> 0,
     outerIterations |-> 0, decoderRuns |-> 0, joinerRuns |-> 0,
     selectFrame |-> 0, selectSteps |-> 0]

TdCall(in) ==
    [TdIdle EXCEPT !.pc = "start", !.T = in.T, !.joinerLogits = in.joinerLogits,
                   !.period = in.period, !.statesOut = in.statesOut]

\* lines 724-748: tokenIds = [], blankId, zero-filled states, prevToken = blankId
TdStart ==
    /\ td.pc = "start"
    /\ td' = [td EXCEPT !.pc = "outer",
                        !.tokenIds = <<>>,
                        !.blankId = blankIdOf(tokens),
                        !.decoderState1 = 0,
                        !.decoderState2 = 0,
                        !.prevToken = blankIdOf(tokens),
                        !.t = 0]
    /\ UNCHANGED <<tokens, ar, pad, mainVars, engineVars, settingsVars, appVars>>

\* for (...; t < T && tokenIds.length < maxSteps; ...)
OuterLoopCond(f) == f.t < f.T /\ Len(f.tokenIds) < maxSteps

\* an inner loop that goes on after a blank
InnerLoopCondIgnoresBlank(f) == f.innerSteps < maxInnerSteps

\* an inner loop without its bound
InnerLoopCondUnbounded(f) == ~f.emittedThisFrame

\* an inner loop of a single step per frame
InnerLoopCondOneStep(f) == ~f.emittedThisFrame /\ f.innerSteps < 1

\* while (!emittedThisFrame && innerSteps < 10)
InnerLoopCond(f) == ~f.emittedThisFrame /\ f.innerSteps < maxInnerSteps

\* lines 750-759: the loop test, the encoder slice of frame t, the frame's flags
TdOuter ==
    /\ td.pc = "outer"
    /\ td' = IF OuterLoopCond(td)
             THEN [td EXCEPT !.pc = "inner",
                             !.encoderSlice = td.t,
                             !.emittedThisFrame = FALSE,
                             !.innerSteps = 0,
                             !.outerIterations = @ + 1]
             ELSE [td EXCEPT !.pc = "done"]
    /\ UNCHANGED <<tokens, ar, pad, mainVars, engineVars, settingsVars, appVars>>

\* lines 762-763 and 864-868: the inner loop test; leaving the loop ends the
\* outer iteration (t++)
TdInner ==
    /\ td.pc = "inner"
    /\ td' = IF InnerLoopCond(td)
             THEN [td EXCEPT !.pc = "decoder", !.innerSteps = @ + 1]
             ELSE [td EXCEPT !.pc = "outer", !.t = @ + 1]
    /\ UNCHANGED <<tokens, ar, pad, mainVars, engineVars, settingsVars, appVars>>

\* lines 765-783: the decoder run on prevToken and the current states
TdRunDecoder ==
    /\ td.pc = "decoder"
    /\ td' = [td EXCEPT !.pc = "joiner",
                        !.targets = td.prevToken,
                        !.decoderRuns = @ + 1,
                        !.newState1 = decoderSessionRun(td, td.decoderRuns + 1),
                        !.newState2 = decoderSessionRun(td, td.decoderRuns + 1)]
    /\ UNCHANGED <<tokens, ar, pad, mainVars, engineVars, settingsVars, appVars>>

\* lines 785-793: the joiner run on the encoder slice and the decoder output
TdRunJoiner ==
    /\ td.pc = "joiner"
    /\ td' = [td EXCEPT !.pc = "select",
                        !.joinerRuns = @ + 1,
                        !.logits = joinerSessionRun(td, td.joinerRuns + 1)]
    /\ UNCHANGED <<tokens, ar, pad, mainVars, engineVars, settingsVars, appVars>>

\* a decision that keeps the states of before the decoder run
CommitNever(old, new) == old

\* if (newState) decoderState = new Float32Array(newState.data)
Commit(old, new) == IF new # 0 THEN new ELSE old

\* lines 795-862: the argmax over the valid range, then blank or emission;
\* selectFrame and selectSteps record t and innerSteps of this inner step
TdSelect ==
    /\ td.pc = "select"
    /\ LET bestToken == bestTokenOf(td.logits, tokens)
       IN  td' = IF bestToken = td.blankId
                 THEN [td EXCEPT !.pc = "inner",
                                 !.bestToken = bestToken,
                                 !.selectFrame = td.t,
                                 !.selectSteps = td.innerSteps,
                                 !.decoderState1 = Commit(@, td.newState1),
                                 !.decoderState2 = Commit(@, td.newState2),
                                 !.emittedThisFrame = TRUE]
                 ELSE [td EXCEPT !.pc = "inner",
                                 !.bestToken = bestToken,
                                 !.selectFrame = td.t,
                                 !.selectSteps = td.innerSteps,
                                 !.tokenIds = Append(@, bestToken),
                                 !.decoderState1 = Commit(@, td.newState1),
                                 !.decoderState2 = Commit(@, td.newState2),
                                 !.prevToken = bestToken]
    /\ UNCHANGED <<tokens, ar, pad, mainVars, engineVars, settingsVars, appVars>>

(***************************************************************************)
(* autoregressiveDecode                                                    *)
(***************************************************************************)
\* A logits row of the decoder is given by its entries at the indices of
\* Support, in ascending order; every other entry of the row is -Infinity,
\* which the scan never selects (NaN behaves alike: it is never greater).
Support == <<0, 1, EOT>>

LogitRows == [1 .. Len(Support) -> LogitVals]

\* the row whose only finite entry is at the end-of-text index
EotRow == [k \in 1 .. Len(Support) |-> IF Support[k] = EOT THEN MaxLogit ELSE NegInf]

\* the row of the positions before the last one of a logits tensor
DecoyRow == [k \in 1 .. Len(Support) |-> IF Support[k] = 1 THEN MaxLogit ELSE NegInf]

\* the vocabulary size of a Whisper decoder, and one too small to hold EOT
VocabSizes == {2, EOT + 2}

\* const langToken = language === 'fr' ? LANG_FR : (language === 'en' ? LANG_EN : LANG_EN)
langTokenOf(language) ==
    IF language = "fr" THEN LANG_FR ELSE IF language = "en" THEN LANG_EN ELSE LANG_EN

\* const promptTokens = [SOT, langToken, TRANSCRIBE, NO_TIMESTAMPS]
promptTokensOf(language) == <<SOT, langTokenOf(language), TRANSCRIBE, NO_TIMESTAMPS>>

\* output names are dotted; a name is the sequence of its dot-separated parts
PresentKeys(role) == {<<"present", "0", role, "key">>, <<"present", "0", role, "value">>}

\* key.startsWith('present')
startsWithPresent(key) == key[1] = "present"

\* pastKey.includes('.encoder.'), pastKey.includes('.decoder.')
includesRole(key, role) == \E j \in 2 .. Len(key) - 1 : key[j] = role

\* key.replace('present', 'past_key_values')
replacePresent(key) == <<"past_key_values">> \o Tail(key)

\* the names the cache-free decoder graph outputs
decoderOutputKeys == {<<"logits">>} \cup PresentKeys("decoder") \cup PresentKeys("encoder")

\* the names the cache-bearing decoder graph outputs
decoderWithPastOutputKeys(f) ==
    {<<"logits">>} \cup PresentKeys("decoder")
        \cup (IF f.pastEmitsEncoder THEN PresentKeys("encoder") ELSE {})

\* the logits tensor [1, positions, vocabSize] of the decoder at a generation
\* step: the last position holds EotRow at step eotStep and baseRow otherwise
decoderLogits(f, step) ==
    [dims |-> <<1, f.positions, f.vocabSize>>,
     rows |-> [q \in 1 .. f.positions |->
                  IF q < f.positions THEN DecoyRow
                  ELSE IF step = f.eotStep THEN EotRow ELSE f.baseRow]]

\* const lastTokenLogits = logitsData.slice(-vocabSize): the last position
lastTokenLogitsOf(logits) == logits.rows[Len(logits.rows)]

\* for (let i = 0; i < vocabSize; i++) if (row[i] > maxLogit) { maxLogit = row[i]; next = i }
\* over the entries of the row that are not -Infinity by construction
RECURSIVE RowArgmaxScan(_, _, _, _, _)
RowArgmaxScan(row, k, vocabSize, maxLogit, nextTokenId) ==
    IF k > Len(Support) \/ Support[k] >= vocabSize THEN nextTokenId
    ELSE IF Better(row[k], maxLogit)
         THEN RowArgmaxScan(row, k + 1, vocabSize, row[k], Support[k])
         ELSE RowArgmaxScan(row, k + 1, vocabSize, maxLogit, nextTokenId)

\* let maxLogit = -Infinity; let nextTokenId = 0; then the scan of the vocabulary
nextTokenIdOf(logits) ==
    RowArgmaxScan(lastTokenLogitsOf(logits), 1, logits.dims[Len(logits.dims)], NegInf, 0)

\* a stop test on the wrong sentinel
IsStartToken(nextTokenId) == nextTokenId = SOT

\* if (nextTokenId === EOT) break
IsEndToken(nextTokenId) == nextTokenId = EOT

\* a generation loop bounded by the whole length, the prompt not deducted
GenLoopCondWholeLength(f) == f.step < maxLength

\* for (...; step < maxLength - promptTokens.length; ...)
GenLoopCond(f) == f.step < maxLength - Len(promptTokensOf(f.language))

\* the inputs of one call: the language and the decoder graphs' behaviour
ArShortInputs ==
    {[language |-> l, baseRow |-> r, eotStep |-> e, vocabSize |-> EOT + 2, positions |-> q,
      pastEmitsEncoder |-> pe] :
        l \in {"fr", "en", "auto"}, r \in LogitRows, e \in 0 .. 2,
        q \in 1 .. 2, pe \in BOOLEAN}

\* calls that can reach the maximum length: the end-of-text row comes at the
\* last step or never, or the vocabulary is too small to hold EOT
ArLongInputs ==
    {[language |-> "fr", baseRow |-> r, eotStep |-> e, vocabSize |-> v,
      positions |-> 1, pastEmitsEncoder |-> FALSE] :
        r \in {[k \in 1 .. Len(Support) |-> 0], DecoyRow},
        e \in {0, maxLength - 5, maxLength},
        v \in VocabSizes}

ArIdle ==
    [pc |-> "idle", language |-> "fr", baseRow |-> EotRow, eotStep |-> 0, vocabSize |-> 0,
     positions |-> 1, pastEmitsEncoder |-> FALSE,
     tokenIds |-> <<>>, pastKeyValues |-> {}, encoderKeyValues |-> {},
     i |-> 0, step |-> 0, logits |-> [dims |-> <<1, 0, 0>>, rows |-> <<>>],
     nextTokenId |-> 0, selected |-> <<>>, calls |-> <<>>]

ArCall(in) ==
    [ArIdle EXCEPT !.pc = "start", !.language = in.language, !.baseRow = in.baseRow,
                   !.eotStep = in.eotStep, !.vocabSize = in.vocabSize,
                   !.positions = in.positions, !.pastEmitsEncoder = in.pastEmitsEncoder]

\* lines 1030-1049: the prompt, the token sequence and the two empty caches
ArStart ==
    /\ ar.pc = "start"
    /\ ar' = [ar EXCEPT !.pc = "prompt",
                        !.tokenIds = promptTokensOf(ar.language),
                        !.pastKeyValues = {},
                        !.encoderKeyValues = {},
                        !.i = 0]
    /\ UNCHANGED <<tokens, td, pad, mainVars, engineVars, settingsVars, appVars>>

\* the cache entries a decode step's outputs give: [key, from] with the
\* past_key_values name and the number of the run that produced the tensor
\* an encoder cache refreshed at every prompt step
encoderEntriesOfEveryStep(keys, i, call) ==
    {[key |-> replacePresent(k), from |-> call] :
        k \in {x \in keys : /\ startsWithPresent(x)
                            /\ includesRole(replacePresent(x), "encoder")}}

\* lines 1083-1089: the encoder cache, filled at the first prompt step only
encoderEntriesOf(keys, i, call) ==
    {[key |-> replacePresent(k), from |-> call] :
        k \in {x \in keys : /\ startsWithPresent(x)
                            /\ i = 0
                            /\ includesRole(replacePresent(x), "encoder")}}

\* a prompt step that keeps no decoder tensor
promptDecoderEntriesOfNone(keys, i, call) == {}

\* lines 1086-1089: the decoder cache of a prompt step
promptDecoderEntriesOf(keys, i, call) ==
    {[key |-> replacePresent(k), from |-> call] :
        k \in {x \in keys : /\ startsWithPresent(x)
                            /\ ~(i = 0 /\ includesRole(replacePresent(x), "encoder"))
                            /\ includesRole(replacePresent(x), "decoder")}}

\* a generation step that keeps every present.* tensor in the decoder cache
stepDecoderEntriesOfAll(keys, call) ==
    {[key |-> replacePresent(k), from |-> call] : k \in {x \in keys : startsWithPresent(x)}}

\* lines 1115-1120: the decoder cache of a generation step
stepDecoderEntriesOf(keys, call) ==
    {[key |-> replacePresent(k), from |-> call] :
        k \in {x \in keys : startsWithPresent(x) /\ includesRole(x, "decoder")}}

\* an assignment cache[pastKey] = tensor for every new entry
Assign(cache, entries) ==
    {e \in cache : \A n \in entries : n.key # e.key} \cup entries

\* lines 1053-1093, one iteration of the prompt loop: the cache-free decoder
\* for the first prompt token, the cache-bearing one for the others, then the
\* classification of the present.* outputs
ArPrompt ==
    /\ ar.pc = "prompt"
    /\ LET promptTokens == promptTokensOf(ar.language)
           call == Len(ar.calls) + 1
           session == IF ar.i = 0 THEN "decoder" ELSE "decoderWithPast"
           keys == IF ar.i = 0 THEN decoderOutputKeys ELSE decoderWithPastOutputKeys(ar)
           feeds == IF ar.i = 0 THEN {} ELSE ar.encoderKeyValues \cup ar.pastKeyValues
       IN  ar' = IF ar.i < Len(promptTokens)
                 THEN [ar EXCEPT
                          !.calls = Append(@, [session |-> session,
                                               input_ids |-> promptTokens[ar.i + 1],
                                               feeds |-> feeds]),
                          !.encoderKeyValues = Assign(@, encoderEntriesOf(keys, ar.i, call)),
                          !.pastKeyValues = promptDecoderEntriesOf(keys, ar.i, call),
                          !.i = @ + 1]
                 ELSE [ar EXCEPT !.pc = "generate", !.step = 0]
    /\ UNCHANGED <<tokens, td, pad, mainVars, engineVars, settingsVars, appVars>>

\* lines 1098-1159, one iteration of the generation loop: the cache-bearing
\* decoder on the last token, the decoder cache replaced, the argmax of the
\* final position, then the stop on end-of-text or the append
ArGenerate ==
    /\ ar.pc = "generate"
    /\ LET call == Len(ar.calls) + 1
           lastToken == ar.tokenIds[Len(ar.tokenIds)]
           keys == decoderWithPastOutputKeys(ar)
           logits == decoderLogits(ar, ar.step)
           nextTokenId == nextTokenIdOf(logits)
           ran == [ar EXCEPT
                      !.calls = Append(@, [session |-> "decoderWithPast",
                                           input_ids |-> lastToken,
                                           feeds |-> ar.encoderKeyValues
                                                        \cup ar.pastKeyValues]),
                      !.pastKeyValues = stepDecoderEntriesOf(keys, call),
                      !.logits = logits,
                      !.nextTokenId = nextTokenId,
                      !.selected = Append(@, nextTokenId)]
       IN  ar' = IF ~GenLoopCond(ar) THEN [ar EXCEPT !.pc = "done"]
                 ELSE IF IsEndToken(nextTokenId) THEN [ran EXCEPT !.pc = "done"]
                 ELSE [ran EXCEPT !.tokenIds = Append(@, nextTokenId), !.step = @ + 1]
    /\ UNCHANGED <<tokens, td, pad, mainVars, engineVars, settingsVars, appVars>>

(***************************************************************************)
(* padFeaturesToWhisperLength                                              *)
(***************************************************************************)
\* the flat data of a feature tensor [batch, nMels, timeSteps], by pattern:
\* "index" marks every element with its own flat position, "frame" with the
\* number of its frame, "zeros" is silence
FeatureData(batch, nMels, timeSteps, pattern) ==
    [n \in 1 .. batch * nMels * timeSteps |->
        IF pattern = "index" THEN n
        ELSE IF pattern = "frame" THEN ((n - 1) % timeSteps) + 1
        ELSE 0]

FeatureTensors ==
    {[dims |-> <<b, m, ts>>, data |-> FeatureData(b, m, ts, pat)] :
        b \in 1 .. MaxBatch,
        m \in {WHISPER_N_MELS, WHISPER_N_MELS + 1},
        ts \in 1 .. WHISPER_TIME_STEPS + MaxExtraFrames,
        pat \in {"index", "frame", "zeros"}}

\* a source index that leaves out the batch offset
srcIdxNoBatch(f, b, mel, t) == mel * f.dims[3] + t

\* a source index that takes the last frames of a row
srcIdxTail(f, b, mel, t) ==
    b * f.dims[2] * f.dims[3] + mel * f.dims[3] + t
        + (IF f.dims[3] > WHISPER_TIME_STEPS THEN f.dims[3] - WHISPER_TIME_STEPS ELSE 0)

\* const srcIdx = b * nMels * timeSteps + mel * timeSteps + t
srcIdxOf(f, b, mel, t) == b * f.dims[2] * f.dims[3] + mel * f.dims[3] + t

\* const dstIdx = b * WHISPER_N_MELS * WHISPER_TIME_STEPS + mel * WHISPER_TIME_STEPS + t
dstIdxOf(b, mel, t) == b * WHISPER_N_MELS * WHISPER_TIME_STEPS + mel * WHISPER_TIME_STEPS + t

\* new Float32Array(paddedSize): zero-filled
ZeroArray(n) == [k \in 1 .. n |-> 0]

PadIdle ==
    [pc |-> "idle", features |-> [dims |-> <<0, 0, 0>>, data |-> <<>>],
     paddedData |-> <<>>, b |-> 0, mel |-> 0, t |-> 0,
     result |-> [dims |-> <<0, 0, 0>>, data |-> <<>>], returnsInput |-> FALSE,
     warned |-> FALSE]

PadCall(features) == [PadIdle EXCEPT !.pc = "start", !.features = features]

\* lines 1207-1222 and 1241: the mel-bin check, the early return of a tensor
\* of the required length, the zero-filled array, the truncation warning
PadStart ==
    /\ pad.pc = "start"
    /\ LET batch == pad.features.dims[1]
           nMels == pad.features.dims[2]
           timeSteps == pad.features.dims[3]
       IN  pad' = IF nMels # WHISPER_N_MELS
                  THEN [pad EXCEPT !.pc = "thrown"]
                  ELSE IF timeSteps = WHISPER_TIME_STEPS
                  THEN [pad EXCEPT !.pc = "done", !.result = pad.features,
                                   !.returnsInput = TRUE]
                  ELSE [pad EXCEPT
                           !.pc = IF timeSteps < WHISPER_TIME_STEPS THEN "pad" ELSE "truncate",
                           !.paddedData =
                               ZeroArray(batch * WHISPER_N_MELS * WHISPER_TIME_STEPS),
                           !.warned = timeSteps > WHISPER_TIME_STEPS,
                           !.b = 0, !.mel = 0, !.t = 0]
    /\ UNCHANGED <<tokens, td, ar, mainVars, engineVars, settingsVars, appVars>>

\* the three nested for loops, advanced by one innermost iteration; past the
\* last one the function returns { data: paddedData, dims: [batch, 80, 3000] }
PadAdvance(f, data) ==
    IF f.t + 1 < WHISPER_TIME_STEPS
    THEN [f EXCEPT !.paddedData = data, !.t = @ + 1]
    ELSE IF f.mel + 1 < WHISPER_N_MELS
    THEN [f EXCEPT !.paddedData = data, !.t = 0, !.mel = @ + 1]
    ELSE IF f.b + 1 < f.features.dims[1]
    THEN [f EXCEPT !.paddedData = data, !.t = 0, !.mel = 0, !.b = @ + 1]
    ELSE [f EXCEPT !.paddedData = data, !.pc = "done",
                   !.result = [data |-> data,
                               dims |-> <<f.features.dims[1], WHISPER_N_MELS,
                                          WHISPER_TIME_STEPS>>]]

\* paddedData[dstIdx] = features.data[srcIdx]
CopyElement(f) ==
    [f.paddedData EXCEPT ![dstIdxOf(f.b, f.mel, f.t) + 1] =
        f.features.data[srcIdxOf(f.features, f.b, f.mel, f.t) + 1]]

\* lines 1224-1238, one innermost iteration of the padding loops: the copy
\* for t < timeSteps, nothing (the element stays zero) otherwise
PadCopy ==
    /\ pad.pc = "pad"
    /\ pad' = PadAdvance(pad, IF pad.t < pad.features.dims[3]
                              THEN CopyElement(pad) ELSE pad.paddedData)
    /\ UNCHANGED <<tokens, td, ar, mainVars, engineVars, settingsVars, appVars>>

\* lines 1239-1250, one innermost iteration of the truncation loops
TruncateCopy ==
    /\ pad.pc = "truncate"
    /\ pad' = PadAdvance(pad, CopyElement(pad))
    /\ UNCHANGED <<tokens, td, ar, mainVars, engineVars, settingsVars, appVars>>

(***************************************************************************)
(* The calls that spawn a subprocess: transcribeSherpaOnnx, transcribeNeMo, *)
(* extractFeatures, extractFeaturesForTransducer                           *)
(***************************************************************************)
\* a property the parsed record does not have
undefined == "<undefined>"

\* the code of a close event whose process was ended by a signal
nullCode == -1

\* a line of stdout: a blank line, a line of log text, or a line holding
\* JSON: null, or an object with these properties
Line(type, success, text, error) ==
    [type |-> type, success |-> success, text |-> text, error |-> error]

BlankLine == Line("blank", undefined, undefined, undefined)

DiagLine == Line("text", undefined, undefined, undefined)

JsonNull == Line("null", undefined, undefined, undefined)

JsonObject(success, text, error) == Line("object", success, text, error)

\* what the driver scripts print, and what a broken one may print
TranscriptionLines ==
    {BlankLine, DiagLine, JsonNull,
     JsonObject("true", "bonjour", undefined),
     JsonObject("true", "", undefined),
     JsonObject("true", undefined, undefined),
     JsonObject("false", undefined, "boom"),
     JsonObject("false", undefined, ""),
     JsonObject("false", undefined, undefined),
     JsonObject(undefined, undefined, "boom")}

\* extract_features.py prints { features, shape: [n_mels, time_steps] } or
\* { error }: success stands for the presence of features and shape, text
\* for the shape
FeatureLines ==
    {BlankLine, DiagLine, JsonNull,
     JsonObject("true", "[80, 5]", undefined),
     JsonObject("true", "[128, 5]", undefined),
     JsonObject("true", "[80, 0]", undefined),
     JsonObject(undefined, undefined, undefined),
     JsonObject(undefined, undefined, "boom")}

\* JavaScript truthiness of a property value
Truthy(x) == x \notin {undefined, "false", ""}

RECURSIVE trimStart(_)
trimStart(lines) ==
    IF lines # <<>> /\ Head(lines) = BlankLine THEN trimStart(Tail(lines)) ELSE lines

RECURSIVE trimEnd(_)
trimEnd(lines) ==
    IF lines # <<>> /\ lines[Len(lines)] = BlankLine
    THEN trimEnd(SubSeq(lines, 1, Len(lines) - 1))
    ELSE lines

\* stdout.trim().split('\n'): the lines between the first and the last
\* non-blank line; a string with nothing else gives one empty line
trimSplit(stdout) ==
    LET trimmed == trimEnd(trimStart(stdout))
    IN  IF trimmed = <<>> THEN <<BlankLine>> ELSE trimmed

\* a handler that reads the first line
firstLineOf(lines) == lines[1]

\* lines 549-550, 566-567, 948-949: const jsonLine = lines[lines.length - 1]
jsonLineOf(lines) == lines[Len(lines)]

\* JSON.parse(jsonLine) throws a SyntaxError
parseThrows(line) == line.type \in {"blank", "text"}

\* the settled state of the promise of a call
Pending == [kind |-> "pending", value |-> undefined]

Resolved(value) == [kind |-> "resolved", value |-> value]

\* reject(new Error(...)): the error by the statement that built it, with
\* the text it embeds
Rejected(error, detail) == [kind |-> "rejected", value |-> <<error, detail>>]

\* lines 542-561: a non-zero exit is reported by the error of the trailing
\* JSON record when there is one, else by the exit code
sherpaFailure(code, stdout) ==
    LET jsonLine == jsonLineOf(trimSplit(stdout))
    IN  IF ~parseThrows(jsonLine) /\ jsonLine.type = "object" /\ Truthy(jsonLine.error)
        THEN Rejected("structured", jsonLine.error)
        ELSE Rejected("exit code", code)

\* lines 939-944: a non-zero exit is reported by the exit code
nemoFailure(code, stdout) == Rejected("exit code", code)

\* lines 564-590 and 946-972: the trailing line of a zero exit is parsed;
\* reading a property of null throws inside the try block as well
parseResult(stdout) ==
    LET jsonLine == jsonLineOf(trimSplit(stdout))
    IN  IF parseThrows(jsonLine) \/ jsonLine.type = "null"
        THEN Rejected("parse", undefined)
        ELSE IF ~Truthy(jsonLine.success)
        THEN IF Truthy(jsonLine.error)
             THEN Rejected("structured", jsonLine.error)
             ELSE Rejected("Transcription failed", undefined)
        ELSE Resolved(jsonLine.text)

\* lines 536-591, the close handler of transcribeSherpaOnnx once it is not
\* already resolved
sherpaClose(code, stdout) ==
    IF code # 0 THEN sherpaFailure(code, stdout) ELSE parseResult(stdout)

\* lines 936-973, the close handler of transcribeNeMo
nemoClose(code, stdout) ==
    IF code # 0 THEN nemoFailure(code, stdout) ELSE parseResult(stdout)

\* what the process wrote to stderr, as far as the handlers look at it
StderrTexts == {"", "librosa", "ModuleNotFoundError"}

\* lines 691-715 and 1319-1379, the close handlers of the feature
\* extractions: a non-zero exit is reported from stderr; JSON.parse(stdout)
\* reads the whole output, which parses when its only non-blank line holds
\* JSON; extractFeatures also validates the record and the shape, while
\* extractFeaturesForTransducer destructures the shape inside the try block
featuresClose(kind, code, stderr, stdout) ==
    LET lines == trimSplit(stdout)
        result == lines[1]
        validating == kind = "extractFeatures"
    IN  IF code # 0
        THEN IF validating /\ stderr = "librosa"
             THEN Rejected("Python dependencies not installed", undefined)
             ELSE IF validating /\ stderr = "ModuleNotFoundError"
             THEN Rejected("Missing Python modules", undefined)
             ELSE Rejected("Feature extraction failed", stderr)
        ELSE IF Len(lines) > 1 \/ parseThrows(result) \/ result.type = "null"
        THEN Rejected("parse", undefined)
        ELSE IF Truthy(result.error) THEN Rejected("structured", result.error)
        ELSE IF ~Truthy(result.success)
        THEN IF validating
             THEN Rejected("Invalid feature extraction output", undefined)
             ELSE Rejected("parse", undefined)
        ELSE IF validating /\ result.text = "[128, 5]"
        THEN Rejected("Invalid mel bins count", result.text)
        ELSE IF validating /\ result.text = "[80, 0]"
        THEN Rejected("Invalid time steps", result.text)
        ELSE Resolved(result.text)

SpawningCalls ==
    {"transcribeSherpaOnnx", "transcribeNeMo", "extractFeatures",
     "extractFeaturesForTransducer"}

LinesOf(kind) ==
    IF kind \in {"transcribeSherpaOnnx", "transcribeNeMo"}
    THEN TranscriptionLines
    ELSE FeatureLines

\* lines 656-673 and 1294-1299: what the feature extractions check before
\* they spawn
Prechecks(kind) ==
    IF kind = "extractFeatures" THEN {"ok", "script not found"}
    ELSE IF kind = "extractFeaturesForTransducer"
    THEN {"ok", "outside temp directory", "audio file not found", "script not found"}
    ELSE {"ok"}

\* a subprocess call that has not been made
SpIdle ==
    [pc |-> "idle", kind |-> "none", process |-> "none", code |-> 0,
     stdout |-> <<>>, stderr |-> "", timeoutId |-> "none", isResolved |-> FALSE,
     closes |-> 0, kills |-> 0, settles |-> 0, outcome |-> Pending]

\* the wrappers that guard their handlers with isResolved and a timer of
\* their own: transcribeSherpaOnnx (lines 504-541) and
\* PythonManager.runCommand (part_010:210-259)
ManualTimeoutCalls == {"transcribeSherpaOnnx", "runCommand"}

\* part_010:242-251, the close handler of runCommand once it is not already
\* resolved
commandClose(code, stdout) ==
    IF code = 0 THEN Resolved(stdout) ELSE Rejected("Command failed", code)

\* the call up to the return of its promise: a failed check rejects at
\* once; else the process is spawned and, in transcribeSherpaOnnx (lines
\* 510-517) and transcribeNeMo (spawn's timeout option, line 917), a
\* 60-second timer is started
SpCall(kind, precheck) ==
    IF precheck # "ok"
    THEN [SpIdle EXCEPT !.pc = "called", !.kind = kind, !.settles = 1,
                        !.outcome = Rejected(precheck, undefined)]
    ELSE [SpIdle EXCEPT !.pc = "called", !.kind = kind, !.process = "running",
                        !.timeoutId = IF kind \in ManualTimeoutCalls \cup {"transcribeNeMo"}
                                      THEN "armed" ELSE "none"]

\* resolve and reject settle a promise once; later calls change nothing.
\* settles counts the calls
Settle(f, outcome) ==
    IF f.outcome = Pending
    THEN [f EXCEPT !.outcome = outcome, !.settles = @ + 1]
    ELSE [f EXCEPT !.settles = @ + 1]

\* everything a subprocess call leaves alone
spOtherVars == <<decodeVars, mainVars, engine, ld, lastCall, dispatched, settingsVars, appVars>>

\* the process writes a line; the data handler appends it (lines 519-521)
ProcessWrites ==
    /\ sp.process = "running"
    /\ Len(sp.stdout) < MaxStdoutLines
    /\ \E line \in LinesOf(sp.kind) :
          sp' = [sp EXCEPT !.stdout = Append(@, line)]
    /\ UNCHANGED spOtherVars

\* the process ends by itself, with an exit code and what it left on stderr
ProcessExits ==
    /\ sp.process = "running"
    /\ \E code \in {0, 1}, stderr \in StderrTexts :
          /\ sp.kind \in {"transcribeSherpaOnnx", "transcribeNeMo"} => stderr = ""
          /\ sp' = [sp EXCEPT !.process = "ended", !.code = code, !.stderr = stderr]
    /\ UNCHANGED spOtherVars

\* lines 527-534, 931-934, 717-719, 1381-1388: the process could not be
\* started and the error handler rejects
SpawnError ==
    /\ sp.process = "running"
    /\ sp.stdout = <<>>
    /\ LET cleared == IF sp.timeoutId = "armed" THEN "cleared" ELSE sp.timeoutId
       IN  IF sp.kind \in ManualTimeoutCalls
           THEN sp' = IF sp.isResolved
                      THEN [sp EXCEPT !.process = "failed", !.timeoutId = cleared]
                      ELSE [Settle(sp, Rejected("Subprocess error", undefined))
                               EXCEPT !.process = "failed", !.timeoutId = cleared,
                                      !.isResolved = TRUE]
           ELSE sp' = [Settle(sp, Rejected("Subprocess error", undefined))
                          EXCEPT !.process = "failed", !.timeoutId = cleared]
    /\ UNCHANGED spOtherVars

\* lines 510-517, the timer of transcribeSherpaOnnx (and of runCommand,
\* part_010:225-232) fires: the process is killed and the promise rejected,
\* unless a handler resolved first
SherpaTimeout ==
    /\ sp.kind \in ManualTimeoutCalls
    /\ sp.timeoutId = "armed"
    /\ IF ~sp.isResolved
       THEN sp' = [Settle(sp, Rejected(IF sp.kind = "runCommand" THEN "Command timeout"
                                       ELSE "Transcription timeout (60 seconds)",
                                       undefined))
                      EXCEPT !.timeoutId = "fired", !.isResolved = TRUE,
                             !.kills = @ + 1,
                             !.process = IF @ = "running" THEN "killed" ELSE @,
                             !.code = IF sp.process = "running" THEN nullCode ELSE @]
       ELSE sp' = [sp EXCEPT !.timeoutId = "fired"]
    /\ UNCHANGED spOtherVars

\* line 917, the timeout option of spawn: the runtime sends the kill signal
\* to a process that is still running after 60 seconds
SpawnTimeout ==
    /\ sp.kind = "transcribeNeMo"
    /\ sp.timeoutId = "armed"
    /\ sp.process = "running"
    /\ sp' = [sp EXCEPT !.timeoutId = "fired", !.kills = @ + 1,
                        !.process = "killed", !.code = nullCode]
    /\ UNCHANGED spOtherVars

\* a close handler that does not look at isResolved
ProcessClosedUnguarded ==
    /\ sp.process \in {"ended", "killed"}
    /\ sp.closes = 0
    /\ sp' = [Settle([sp EXCEPT !.closes = @ + 1],
                     IF sp.kind = "runCommand" THEN commandClose(sp.code, sp.stdout)
                     ELSE sherpaClose(sp.code, sp.stdout))
                 EXCEPT !.isResolved = TRUE]
    /\ UNCHANGED spOtherVars

\* the close event of a process that ended or was killed: lines 536-591,
\* 936-973, 691-715, 1319-1379
ProcessClosed ==
    /\ sp.process \in {"ended", "killed"}
    /\ sp.closes = 0
    /\ LET cleared == IF sp.timeoutId = "armed" THEN "cleared" ELSE sp.timeoutId
           closed == [sp EXCEPT !.closes = @ + 1, !.timeoutId = cleared]
       IN  CASE sp.kind = "transcribeSherpaOnnx" ->
                    sp' = IF sp.isResolved THEN closed
                          ELSE [Settle(closed, sherpaClose(sp.code, sp.stdout))
                                   EXCEPT !.isResolved = TRUE]
             [] sp.kind = "runCommand" ->
                    sp' = IF sp.isResolved THEN closed
                          ELSE [Settle(closed, commandClose(sp.code, sp.stdout))
                                   EXCEPT !.isResolved = TRUE]
             [] sp.kind = "transcribeNeMo" ->
                    sp' = Settle(closed, nemoClose(sp.code, sp.stdout))
             [] OTHER ->
                    sp' = Settle(closed, featuresClose(sp.kind, sp.code, sp.stderr, sp.stdout))
    /\ UNCHANGED spOtherVars

(***************************************************************************)
(* The engine: constructor, loadModel with its loaders, cleanup            *)
(***************************************************************************)
\* a field that holds nothing; a session, vocabulary or path that is held is
\* named by the number (1, 2, ...) of the loadModel call that set it
null == 0

\* lines 36-60, the fields as the constructor leaves them (tokens and
\* isLoaded are variables of their own)
EngineNew ==
    [session |-> null, modelPath |-> null,
     encoderSession |-> null, decoderSession |-> null,
     decoderWithPastSession |-> null,
     joinerSession |-> null, tokensLoad |-> null,
     modelDir |-> null, architecture |-> "null",
     modelConfig |-> null, tokenizer |-> null, sherpaScriptPath |-> null]

\* lines 167, 195-198, 247-249, 136: the file names loadModel and its loaders
\* look for; "onnx" is the subdirectory of HuggingFace exports
requiredFiles == <<"encoder.int8.onnx", "decoder.int8.onnx", "joiner.int8.onnx", "tokens.txt">>

Int8Files == {requiredFiles[i] : i \in 1 .. Len(requiredFiles)}

TransducerFiles == {"encoder.onnx", "decoder.onnx", "joiner.onnx"}

OnnxSubdir == {"onnx", "onnx/encoder.onnx", "onnx/decoder.onnx", "onnx/joiner.onnx"}

WhisperFiles == {"encoder_model.onnx", "decoder_model.onnx", "decoder_with_past_model.onnx"}

\* the argument of loadModel and what the file system holds there: whether
\* it is a directory, the files in it, what config.json declares ("absent"
\* when there is none), whether the sherpa driver script is installed,
\* whether new Tokenizer(dir) succeeds, and the entries of tokens.txt
Dir(isDir, files, config, script, tokenizer, n) ==
    [isDirectory |-> isDir, files |-> files, config |-> config,
     script |-> script, tokenizer |-> tokenizer, tokensLength |-> n]

\* every combination of the files the detection rules look at
DetectionDirs ==
    {Dir(TRUE, a \cup b \cup c \cup d \cup e, cfg, s, TRUE, 1) :
        a \in SUBSET Int8Files,
        b \in SUBSET TransducerFiles,
        c \in {{}, {"onnx"}, OnnxSubdir},
        d \in {{}, WhisperFiles, WhisperFiles \ {"decoder_with_past_model.onnx"}},
        e \in {{}, {"model.onnx"}},
        cfg \in {"absent", "transducer", "whisper"},
        s \in BOOLEAN}

\* one model of each architecture, as the model manager installs them, and
\* a path to a single graph file
SherpaDir == Dir(TRUE, Int8Files, "absent", TRUE, FALSE, 1)

TransducerDir(withTokens) ==
    Dir(TRUE, TransducerFiles \cup (IF withTokens THEN {"tokens.txt"} ELSE {}),
        "transducer", TRUE, FALSE, MaxVocab)

WhisperDir(tokenizer) == Dir(TRUE, WhisperFiles, "whisper", TRUE, tokenizer, 0)

SingleFile(tokenizer) == Dir(FALSE, {"model.onnx"}, "absent", TRUE, tokenizer, 0)

InstalledDirs ==
    {SherpaDir} \cup {TransducerDir(w) : w \in BOOLEAN}
        \cup {WhisperDir(t) : t \in BOOLEAN} \cup {SingleFile(t) : t \in BOOLEAN}

\* fs.existsSync(path.join(dir, file))
existsSync(d, file) == file \in d.files

\* a detection that tries the single graph first
loaderOfSingleFirst(d) ==
    IF existsSync(d, "model.onnx") THEN "loadSingleModel"
    ELSE IF existsSync(d, "encoder.int8.onnx") THEN "loadSherpaOnnxModel"
    ELSE "throw"

\* a detection that does not read config.json
loaderOfWithoutManifest(d) ==
    IF existsSync(d, "encoder.int8.onnx") THEN "loadSherpaOnnxModel"
    ELSE IF existsSync(d, "encoder.onnx") /\ existsSync(d, "joiner.onnx")
    THEN "loadTransducerModel"
    ELSE IF \A f \in WhisperFiles : existsSync(d, f) THEN "loadMultiModel"
    ELSE IF existsSync(d, "model.onnx") THEN "loadSingleModel"
    ELSE "throw"

\* lines 91-146, loadModel's detection: the loader it calls, or "throw" for
\* 'No valid model files found in directory'
loaderOf(d) ==
    IF d.isDirectory
    THEN IF existsSync(d, "encoder.int8.onnx") THEN "loadSherpaOnnxModel"
         ELSE IF d.config = "transducer" THEN "loadTransducerModel"
         ELSE LET inSubdir == ~existsSync(d, "encoder.onnx") /\ existsSync(d, "onnx")
                  encoderTransducerPath ==
                      IF inSubdir THEN "onnx/encoder.onnx" ELSE "encoder.onnx"
                  joinerPath == IF inSubdir THEN "onnx/joiner.onnx" ELSE "joiner.onnx"
              IN  IF existsSync(d, encoderTransducerPath) /\ existsSync(d, joinerPath)
                  THEN "loadTransducerModel"
                  ELSE IF \A f \in WhisperFiles : existsSync(d, f)
                  THEN "loadMultiModel"
                  ELSE IF existsSync(d, "model.onnx") THEN "loadSingleModel"
                  ELSE "throw"
    ELSE "loadSingleModel"

\* part_016:57-123, ModelManager.modelExists on a model directory (for the
\* path of a file, on the directory that holds it): the report and the
\* architecture, "null" when no model is found
modelExists(d) ==
    IF \A i \in 1 .. Len(requiredFiles) : existsSync(d, requiredFiles[i])
    THEN [exists |-> TRUE, architecture |-> "sherpa-onnx"]
    ELSE IF /\ existsSync(d, "encoder.onnx")
            /\ existsSync(d, "decoder.onnx")
            /\ existsSync(d, "joiner.onnx")
    THEN [exists |-> TRUE, architecture |-> "transducer"]
    ELSE IF \A f \in WhisperFiles : existsSync(d, f)
    THEN [exists |-> TRUE, architecture |-> "whisper-multi-model"]
    ELSE IF existsSync(d, "model.onnx")
    THEN [exists |-> TRUE, architecture |-> "single-model"]
    ELSE [exists |-> FALSE, architecture |-> "null"]

\* lines 192-197: the graphs of a transducer are read from the onnx
\* subdirectory when there is one
transducerPath(d, file) ==
    IF existsSync(d, "onnx") THEN IF file = "encoder.onnx" THEN "onnx/encoder.onnx"
                                  ELSE IF file = "decoder.onnx" THEN "onnx/decoder.onnx"
                                  ELSE "onnx/joiner.onnx"
    ELSE file

\* ort.InferenceSession.create(path): a session, or it throws when the graph
\* file cannot be opened
createSucceeds(d, file) == existsSync(d, file)

LdIdle == [pc |-> "idle", dir |-> Dir(FALSE, {}, "absent", FALSE, FALSE, 0),
           id |-> 0, loader |-> "none", opened |-> {}, result |-> "none"]

\* everything loadModel and cleanup leave alone
loadOtherVars ==
    <<td, ar, pad, isRecording, isProcessing, starting, stopRequests, handlers,
      returned, sp, settingsVars>>

\* what a transcribe call did: whether it threw 'Model not loaded', whether
\* it called convertToWav, and the method it went on to
Dispatch(threw, converted, method) ==
    [threw |-> threw, converted |-> converted, method |-> method]

\* transcribe has not been called on the engine as it is now
NoDispatch == Dispatch(FALSE, FALSE, "none")

\* a method that changes the engine's fields ran
Called(method) ==
    /\ lastCall' = method
    /\ dispatched' = NoDispatch

\* a transcribe that dispatches without looking at isLoaded
transcribeOfUnguarded(webm) ==
    Dispatch(FALSE, webm, "transcribeSingleModel")

\* lines 423-446, transcribe up to the method it awaits
transcribeOf(webm) ==
    IF ~isLoaded THEN Dispatch(TRUE, FALSE, "none")
    ELSE Dispatch(FALSE, webm,
                  CASE engine.architecture = "sherpa-onnx" -> "transcribeSherpaOnnx"
                    [] engine.architecture = "nemo" -> "transcribeNeMo"
                    [] engine.architecture = "transducer" -> "transcribeTransducer"
                    [] engine.architecture = "whisper-multi-model" -> "transcribeMultiModel"
                    [] OTHER -> "transcribeSingleModel")

\* lines 148-152, the catch block of loadModel
LoadCatch(frame, message) ==
    /\ isLoaded' = FALSE
    /\ ld' = [frame EXCEPT !.pc = "done", !.result = message]

\* the loader returns { success: true }
LoadReturn(frame) ==
    /\ isLoaded' = TRUE
    /\ ld' = [frame EXCEPT !.pc = "done", !.result = "success"]

\* lines 231-235, 274-278, 299-303: config.json, when present, is read
\* into modelConfig
modelConfigAfter(e, d, id) == IF d.config # "absent" THEN id ELSE e.modelConfig

\* lines 280-287, 322-330: a tokenizer that fails to load leaves the field alone
tokenizerAfter(e, d, id) == IF d.tokenizer THEN id ELSE e.tokenizer

\* lines 155-184, loadSherpaOnnxModel: no await, the files and the script
\* are only checked
loadSherpaOnnxModel(frame) ==
    LET d == frame.dir
        e == [engine EXCEPT !.architecture = "sherpa-onnx", !.modelDir = frame.id]
    IN  IF ~d.script
        THEN /\ engine' = e
             /\ LoadCatch(frame, "Script transcribe_sherpa_vad.py not found")
        ELSE IF \E i \in 1 .. Len(requiredFiles) : ~existsSync(d, requiredFiles[i])
        THEN /\ engine' = e
             /\ LoadCatch(frame, "Missing model file")
        ELSE /\ engine' = [e EXCEPT !.sherpaScriptPath = frame.id]
             /\ LoadReturn(frame)

\* lines 186-210 and 242-263, loadTransducerModel and loadMultiModel up to
\* the creation of the encoder session
loadSplitModel(frame, architecture) ==
    /\ engine' = [engine EXCEPT !.architecture = architecture, !.modelDir = frame.id]
    /\ ld' = [frame EXCEPT !.pc = "encoder"]
    /\ UNCHANGED isLoaded

\* lines 294-316, loadSingleModel up to the creation of the session
loadSingleModel(frame) ==
    /\ engine' = [engine EXCEPT !.architecture = "single-model",
                                !.modelPath = frame.id,
                                !.modelConfig = modelConfigAfter(engine, frame.dir, frame.id)]
    /\ ld' = [frame EXCEPT !.pc = "session"]
    /\ UNCHANGED isLoaded

\* lines 86-146: loadModel(modelPath) detects the architecture and runs the
\* loader up to its first await
loadModel(d) ==
    /\ LET frame == [pc |-> "detect", dir |-> d, id |-> ld.id + 1,
                     loader |-> loaderOf(d), opened |-> {}, result |-> "none"]
       IN  CASE frame.loader = "loadSherpaOnnxModel" -> loadSherpaOnnxModel(frame)
             [] frame.loader = "loadTransducerModel" -> loadSplitModel(frame, "transducer")
             [] frame.loader = "loadMultiModel" -> loadSplitModel(frame, "whisper-multi-model")
             [] frame.loader = "loadSingleModel" -> loadSingleModel(frame)
             [] OTHER -> /\ LoadCatch(frame, "No valid model files found in directory")
                         /\ UNCHANGED engine
    /\ Called("loadModel")
    /\ UNCHANGED tokens

\* loadModel is called on one of the installed models or, the first time, on
\* any layout of a directory
LoadModel ==
    /\ ld.pc \in {"idle", "done"}
    /\ ld.id < MaxLoads
    /\ \E d \in InstalledDirs \cup (IF ld.id = 0 THEN DetectionDirs ELSE {}) : loadModel(d)
    /\ UNCHANGED <<loadOtherVars, appVars>>

\* a session creation of the load settles: the field is assigned (the frame
\* notes the graph file opened) and the loader goes on to next, or the
\* rejection reaches loadModel's catch block
SessionCreated(file, assigned, next) ==
    /\ IF createSucceeds(ld.dir, file)
       THEN /\ engine' = assigned
            /\ ld' = [ld EXCEPT !.pc = next, !.opened = @ \cup {file}]
            /\ UNCHANGED isLoaded
       ELSE /\ LoadCatch(ld, "session creation failed")
            /\ UNCHANGED engine
    /\ Called("loadModel")
    /\ UNCHANGED <<tokens, loadOtherVars, appVars>>

\* lines 210 and 263
EncoderCreated ==
    /\ ld.pc = "encoder"
    /\ SessionCreated(IF ld.loader = "loadTransducerModel"
                      THEN transducerPath(ld.dir, "encoder.onnx")
                      ELSE "encoder_model.onnx",
                      [engine EXCEPT !.encoderSession = ld.id], "decoder")

\* lines 214 and 267
DecoderCreated ==
    /\ ld.pc = "decoder"
    /\ IF ld.loader = "loadTransducerModel"
       THEN SessionCreated(transducerPath(ld.dir, "decoder.onnx"),
                           [engine EXCEPT !.decoderSession = ld.id], "joiner")
       ELSE SessionCreated("decoder_model.onnx",
                           [engine EXCEPT !.decoderSession = ld.id], "decoderWithPast")

\* lines 218-239: the joiner session, then tokens.txt and config.json when
\* they exist
JoinerCreated ==
    /\ ld.pc = "joiner"
    /\ LET d == ld.dir
           hasTokens == existsSync(d, "tokens.txt")
       IN  IF createSucceeds(d, transducerPath(d, "joiner.onnx"))
           THEN /\ engine' = [engine EXCEPT
                                 !.joinerSession = ld.id,
                                 !.tokensLoad = IF hasTokens THEN ld.id ELSE @,
                                 !.modelConfig = modelConfigAfter(engine, d, ld.id)]
                /\ tokens' = IF hasTokens
                             THEN [null |-> FALSE, length |-> d.tokensLength]
                             ELSE tokens
                /\ LoadReturn([ld EXCEPT !.opened = @ \cup {transducerPath(d, "joiner.onnx")}])
           ELSE /\ LoadCatch(ld, "session creation failed")
                /\ UNCHANGED <<engine, tokens>>
    /\ Called("loadModel")
    /\ UNCHANGED <<loadOtherVars, appVars>>

\* lines 271-291: the decoder-with-past session, then config.json and the tokenizer
DecoderWithPastCreated ==
    /\ ld.pc = "decoderWithPast"
    /\ IF createSucceeds(ld.dir, "decoder_with_past_model.onnx")
       THEN /\ engine' = [engine EXCEPT
                             !.decoderWithPastSession = ld.id,
                             !.modelConfig = modelConfigAfter(engine, ld.dir, ld.id),
                             !.tokenizer = tokenizerAfter(engine, ld.dir, ld.id)]
            /\ LoadReturn([ld EXCEPT !.opened = @ \cup {"decoder_with_past_model.onnx"}])
       ELSE /\ LoadCatch(ld, "session creation failed")
            /\ UNCHANGED engine
    /\ Called("loadModel")
    /\ UNCHANGED <<tokens, loadOtherVars, appVars>>

\* lines 316-332: the single session, then the tokenizer
SingleSessionCreated ==
    /\ ld.pc = "session"
    /\ IF createSucceeds(ld.dir, "model.onnx")
       THEN /\ engine' = [engine EXCEPT
                             !.session = ld.id,
                             !.tokenizer = tokenizerAfter(engine, ld.dir, ld.id)]
            /\ LoadReturn([ld EXCEPT !.opened = @ \cup {"model.onnx"}])
       ELSE /\ LoadCatch(ld, "session creation failed")
            /\ UNCHANGED engine
    /\ Called("loadModel")
    /\ UNCHANGED <<tokens, loadOtherVars, appVars>>

\* lines 1443-1470, cleanup
cleanup ==
    /\ engine' = [engine EXCEPT
                     !.encoderSession = null, !.decoderSession = null,
                     !.decoderWithPastSession = null, !.session = null,
                     !.tokenizer = null, !.modelPath = null, !.modelDir = null,
                     !.architecture = "null", !.modelConfig = null]
    /\ isLoaded' = FALSE
    /\ Called("cleanup")

\* cleanup is called on the engine
Cleanup ==
    /\ cleanup
    /\ UNCHANGED <<tokens, ld, loadOtherVars, appVars>>

\* lines 423-446, transcribe is called with the path of a .webm or of a
\* .wav file
Transcribe ==
    /\ \E webm \in BOOLEAN : dispatched' = transcribeOf(webm)
    /\ UNCHANGED <<tokens, engine, ld, lastCall, isLoaded, loadOtherVars, appVars>>

\* the engine right after new InferenceEngine() (main.js:1421)
EngineIdle ==
    /\ engine = EngineNew
    /\ ld = LdIdle
    /\ lastCall = "constructor"
    /\ sp = SpIdle
    /\ dispatched = NoDispatch

(***************************************************************************)
(* The main process: toggleRecording, startRecording, stopRecording, the   *)
(* audio-data-recorded handler and its safety timeout                      *)
(***************************************************************************)
Slots == 1 .. MaxHandlers

\* what inferenceEngine.transcribe meets in one call: the architecture
\* loaded; for the single graph the rank of the output tensor, whether a
\* tokenizer is loaded and what tokenizer.decode gives ("throws" when it
\* throws); for sherpa-onnx the exit code and the final stdout line of the
\* subprocess
TranscribeCall(architecture, rank, tokenizer, decoded, code, line) ==
    [architecture |-> architecture, rank |-> rank, tokenizer |-> tokenizer,
     decoded |-> decoded, code |-> code, line |-> line]

NoCall == TranscribeCall("none", 0, FALSE, "", 0, BlankLine)

DecodedTexts == {"", " ", "bonjour", "throws"}

TranscribeCalls ==
    {TranscribeCall("single-model", r, t, d, 0, BlankLine) :
        r \in 1 .. MaxRank, t \in BOOLEAN, d \in DecodedTexts}
    \cup {TranscribeCall("sherpa-onnx", 0, FALSE, "", c, l) :
             c \in {0, 1}, l \in TranscriptionLines}

\* one call for each way the handler goes on: text, no text, a rejection
UsualCalls ==
    {TranscribeCall("single-model", 2, TRUE, "bonjour", 0, BlankLine),
     TranscribeCall("single-model", 2, TRUE, "", 0, BlankLine),
     TranscribeCall("sherpa-onnx", 0, FALSE, "", 1, BlankLine)}

\* !transcription || transcription.trim().length === 0
IsBlank(text) == text \in {"", " "}

\* inferenceEngine.js:1392-1441, decodeOutput: every failure is returned as
\* a string, an empty decode as ""
decodeOutput(call) ==
    IF ~call.tokenizer THEN "Error: Tokenizer not available"
    ELSE IF call.rank \notin {2, 3} THEN "Error: Unexpected model output format"
    ELSE IF call.decoded = "throws" THEN "Error: Decoding failed"
    ELSE IF IsBlank(call.decoded) THEN ""
    ELSE call.decoded

\* inferenceEngine.js:423-446, 1164-1200 and 448-593: what the awaited
\* transcribe call settles with: the string of transcribeSingleModel, or
\* the promise of transcribeSherpaOnnx
transcribe(call) ==
    IF call.architecture = "single-model"
    THEN Resolved(decodeOutput(call))
    ELSE sherpaClose(call.code, <<call.line>>)

\* lines 838-847: the text of a result: a string, the text of an object
\* when that is a string, else String(result || '')
transcriptionTextOf(call) ==
    LET result == transcribe(call).value
    IN  IF call.architecture = "single-model" THEN result
        ELSE IF result # undefined THEN result
        ELSE "[object Object]"

\* line 853: transcriptionText && transcriptionText.trim()
HasText(text) == ~IsBlank(text)

\* what a handler returned: the call it awaited, its reply, the text it
\* wrote to the clipboard and whether it called pasteToActiveApp
Return(call, success, text, error, copied, pasteCalled) ==
    [call |-> call,
     reply |-> [success |-> success, text |-> text, error |-> error],
     copied |-> copied, pasteCalled |-> pasteCalled]

\* no audio-data-recorded handler has returned yet
NoReturn == Return(NoCall, FALSE, undefined, "none", undefined, FALSE)

\* lines 875, 885, 900: the replies after the transcription
ReturnAfter(call, pasteCalled) ==
    LET settled == transcribe(call)
        text == transcriptionTextOf(call)
    IN  IF settled.kind = "rejected"
        THEN Return(call, FALSE, undefined, settled.value[1], undefined, FALSE)
        ELSE IF HasText(text)
        THEN Return(call, TRUE, text, undefined, text, pasteCalled)
        ELSE Return(call, FALSE, undefined, "No text transcribed", undefined, FALSE)

FreeSlot == [status |-> "free", safetyTimeout |-> "none", call |-> NoCall]

\* the state right after the module is loaded (main.js:83-84), no handler running
MainIdle ==
    /\ isLoaded = FALSE
    /\ isRecording = FALSE
    /\ isProcessing = FALSE
    /\ starting = 0
    /\ stopRequests = 0
    /\ handlers = [h \in Slots |-> FreeSlot]
    /\ returned = NoReturn

\* inferenceEngine.transcribe calls that have not settled
InFlight == {h \in Slots : handlers[h].status = "transcribing"}

\* lines 464-476, startRecording up to its first await: refused without a
\* model, else isRecording = true and the call waits for the window
StartRecordingBegin ==
    IF ~isLoaded
    THEN UNCHANGED <<isRecording, starting>>
    ELSE /\ isRecording' = TRUE
         /\ starting' = starting + 1

\* lines 497-518, stopRecording: isRecording = false and the renderer is
\* told to stop and to send the audio
StopRecording ==
    IF ~isRecording \/ isProcessing
    THEN UNCHANGED <<isRecording, stopRequests>>
    ELSE /\ isRecording' = FALSE
         /\ stopRequests' = stopRequests + 1

\* lines 449-462, toggleRecording, called by the global hotkey and the menus
ToggleRecording ==
    /\ starting < MaxStarting
    /\ stopRequests < MaxStopRequests
    /\ IF isProcessing
       THEN UNCHANGED <<isRecording, starting, stopRequests>>
       ELSE IF isRecording
       THEN StopRecording /\ UNCHANGED starting
       ELSE StartRecordingBegin /\ UNCHANGED stopRequests
    /\ UNCHANGED <<isLoaded, isProcessing, handlers, returned, decodeVars, engineVars, settingsVars, appVars>>

\* lines 477-494, startRecording after showRecordingWindow: the renderer is
\* told to record, or the catch block resets isRecording
StartRecordingResume ==
    /\ starting > 0
    /\ starting' = starting - 1
    /\ \E failed \in BOOLEAN :
           isRecording' = IF failed THEN FALSE ELSE isRecording
    /\ UNCHANGED <<isLoaded, isProcessing, stopRequests, handlers, returned, decodeVars, engineVars, settingsVars, appVars>>

\* handler h is the first to get that far and nothing else is going on
FirstAlone(h) ==
    /\ returned = NoReturn
    /\ ~isRecording
    /\ starting = 0
    /\ stopRequests = 0
    /\ \A x \in Slots \ {h} : handlers[x].status = "free"

\* lines 901-909, the finally block: clearTimeout and isProcessing = false
Finally(h) ==
    /\ handlers' = [handlers EXCEPT ![h] = FreeSlot]
    /\ isProcessing' = FALSE

\* lines 749-833, the renderer answers a stop-audio-recording with
\* audio-data-recorded; the handler runs up to its first await. It is refused
\* while isProcessing; null or empty audio returns through the finally block
\* at once; otherwise the safety timeout is armed, the audio is written and
\* inferenceEngine.transcribe is called
AudioDataRecorded ==
    /\ stopRequests > 0
    /\ stopRequests' = stopRequests - 1
    /\ \E audioData \in {"null", "empty", "data"} :
          IF isProcessing
          THEN /\ returned' = Return(NoCall, FALSE, undefined, "Already processing",
                                     undefined, FALSE)
               /\ UNCHANGED <<isProcessing, handlers>>
          ELSE IF audioData # "data"
          THEN /\ returned' = Return(NoCall, FALSE, undefined,
                                     IF audioData = "null" THEN "No audio data"
                                     ELSE "Empty audio data",
                                     undefined, FALSE)
               /\ UNCHANGED <<isProcessing, handlers>>
          ELSE /\ \E h \in Slots : handlers[h].status = "free"
               /\ LET h == CHOOSE x \in Slots : handlers[x].status = "free"
                  IN  handlers' = [handlers EXCEPT
                                      ![h] = [status |-> "transcribing",
                                              safetyTimeout |-> "armed",
                                              call |-> NoCall]]
               /\ isProcessing' = TRUE
               /\ UNCHANGED returned
    /\ UNCHANGED <<isLoaded, isRecording, starting, decodeVars, engineVars, settingsVars, appVars>>

\* lines 822-899, inferenceEngine.transcribe settles: with text the
\* clipboard is written and, with autoPaste, the handler waits for
\* pasteToActiveApp; else (no text, or the catch block) it returns through
\* the finally block. Every call is tried for a first handler that
\* runs alone, the usual ones otherwise
TranscribeSettles(h) ==
    /\ handlers[h].status = "transcribing"
    /\ \E call \in IF FirstAlone(h) THEN TranscribeCalls ELSE UsualCalls,
          autoPaste \in BOOLEAN :
          IF /\ transcribe(call).kind = "resolved"
             /\ HasText(transcriptionTextOf(call))
             /\ autoPaste
          THEN /\ handlers' = [handlers EXCEPT ![h].status = "pasting",
                                               ![h].call = call]
               /\ UNCHANGED <<isProcessing, returned>>
          ELSE /\ Finally(h)
               /\ returned' = ReturnAfter(call, FALSE)
    /\ UNCHANGED <<isLoaded, isRecording, starting, stopRequests, decodeVars, engineVars, settingsVars, appVars>>

\* lines 865-875 and 901-909, pasteToActiveApp settles and the handler returns
PasteSettles(h) ==
    /\ handlers[h].status = "pasting"
    /\ Finally(h)
    /\ returned' = ReturnAfter(handlers[h].call, TRUE)
    /\ UNCHANGED <<isLoaded, isRecording, starting, stopRequests, decodeVars, engineVars, settingsVars, appVars>>

\* a safety timeout that leaves the flags alone
SafetyTimeoutKeepsLock(h) ==
    /\ handlers[h].safetyTimeout = "armed"
    /\ handlers' = [handlers EXCEPT ![h].safetyTimeout = "fired"]
    /\ UNCHANGED <<isLoaded, isRecording, isProcessing, starting, stopRequests, returned,
                   decodeVars, engineVars, settingsVars, appVars>>

\* lines 759-767, the safety timeout of a handler that has not returned fires
SafetyTimeout(h) ==
    /\ handlers[h].safetyTimeout = "armed"
    /\ handlers' = [handlers EXCEPT ![h].safetyTimeout = "fired"]
    /\ IF isProcessing
       THEN /\ isProcessing' = FALSE
            /\ isRecording' = FALSE
       ELSE UNCHANGED <<isProcessing, isRecording>>
    /\ UNCHANGED <<isLoaded, starting, stopRequests, returned, decodeVars, engineVars, settingsVars, appVars>>

(***************************************************************************)
(* The settings store: the transcription history (main.js) and the hotkey *)
(* capture of the settings view (renderer)                                 *)
(***************************************************************************)
\* main.js:1015, the number of entries the history keeps
historyLimit == 50

\* a hotkey string is the sequence of its '+'-separated parts
Modifiers == {"CommandOrControl", "Control", "Shift", "Alt"}

\* main.js:742, 925 and 709: the defaults of store.get; activeModel is "null"
\* when the key is absent
StoreNew ==
    [transcriptionHistory |-> <<>>, hotkey |-> <<"CommandOrControl", "Shift", "Space">>,
     activeModel |-> "null"]

\* part_018:47-48, the settings view before any capture; saved lists the
\* hotkey strings that were sent to save-settings
HkIdle == [isCapturingHotkey |-> FALSE, displayed |-> StoreNew.hotkey, saved |-> <<>>]

SettingsIdle ==
    /\ store = StoreNew
    /\ added = 0
    /\ hk = HkIdle

\* a history that is never cut
limitedNever(history) == history

\* main.js:1014-1017: if (history.length > 50) history.pop()
limited(history) ==
    IF Len(history) > historyLimit THEN SubSeq(history, 1, Len(history) - 1) ELSE history

\* main.js:1005-1017: history.unshift({ text, timestamp, duration }), then
\* the limit
addToHistory(history, text, timestamp) ==
    limited(<<[text |-> text, timestamp |-> timestamp]>> \o history)

\* main.js:861 and 1003-1019: a transcription with text is added to the
\* stored history; the ordinal of the call stands for Date.now()
AddToHistory ==
    /\ added < MaxAdds
    /\ added' = added + 1
    /\ \E text \in {"bonjour"} :
          store' = [store EXCEPT
                       !.transcriptionHistory = addToHistory(@, text, added + 1)]
    /\ UNCHANGED <<hk, decodeVars, mainVars, engineVars, appVars>>

\* main.js:928-931, the clear-history handler
ClearHistory ==
    /\ store' = [store EXCEPT !.transcriptionHistory = <<>>]
    /\ UNCHANGED <<added, hk, decodeVars, mainVars, engineVars, appVars>>

\* the keydown events of a capture: event.key and the modifier flags
Keys == {"a", " ", "F5", "Escape", "Meta", "Control", "Shift", "Alt"}

KeyEvents ==
    [key : Keys, metaKey : BOOLEAN, ctrlKey : BOOLEAN, shiftKey : BOOLEAN,
     altKey : BOOLEAN]

\* part_018:631-640, the modifiers of an event
modifiersOf(event) ==
    (IF event.metaKey \/ event.key = "Meta" THEN <<"CommandOrControl">> ELSE <<>>)
        \o (IF (event.ctrlKey \/ event.key = "Control") /\ ~event.metaKey
            THEN <<"Control">> ELSE <<>>)
        \o (IF event.shiftKey \/ event.key = "Shift" THEN <<"Shift">> ELSE <<>>)
        \o (IF event.altKey \/ event.key = "Alt" THEN <<"Alt">> ELSE <<>>)

\* part_018:648-657, the name of the key
normalizedKeyOf(key) ==
    IF key = " " THEN "Space" ELSE IF key = "a" THEN "A" ELSE key

\* part_018:659-665: [...modifiers, normalizedKey].join('+'), or the key
\* alone when there is no modifier
hotkeyStringOf(event) ==
    IF Len(modifiersOf(event)) > 0
    THEN modifiersOf(event) \o <<normalizedKeyOf(event.key)>>
    ELSE <<normalizedKeyOf(event.key)>>

\* part_018:577-606, startHotkeyCapture: a click on the hotkey display
StartHotkeyCapture ==
    /\ hk' = [hk EXCEPT !.isCapturingHotkey = TRUE]
    /\ UNCHANGED <<store, added, decodeVars, mainVars, engineVars, appVars>>

\* part_018:608-623, stopHotkeyCapture: by the 300 ms timer of a capture or
\* by a click outside the display
StopHotkeyCapture ==
    /\ hk' = [hk EXCEPT !.isCapturingHotkey = FALSE]
    /\ UNCHANGED <<store, added, decodeVars, mainVars, engineVars, appVars>>

\* part_018:625-678 with saveHotkey (680-689) and the save-settings handler
\* (main.js:912-921): a keydown during a capture. A modifier pressed alone
\* is waited on, Escape cancels, any other key is displayed and saved
HandleHotkeyCapture ==
    /\ hk.isCapturingHotkey
    /\ Len(hk.saved) < MaxSaves
    /\ \E event \in KeyEvents :
          IF event.key \in {"Meta", "Control", "Shift", "Alt"}
          THEN UNCHANGED <<hk, store>>
          ELSE IF event.key = "Escape"
          THEN /\ hk' = [hk EXCEPT !.isCapturingHotkey = FALSE]
               /\ UNCHANGED store
          ELSE /\ hk' = [hk EXCEPT !.displayed = hotkeyStringOf(event),
                                   !.saved = Append(@, hotkeyStringOf(event))]
               /\ store' = [store EXCEPT !.hotkey = hotkeyStringOf(event)]
    /\ UNCHANGED <<added, decodeVars, mainVars, engineVars, appVars>>

(***************************************************************************)
(* The activeModel setting: the load-model and delete-model handlers and   *)
(* the auto-load of app.whenReady (main.js)                                *)
(***************************************************************************)
\* the directories of userData/models the handlers are called with
ModelPaths == {"models/whisper", "models/sherpa", "models/incomplete"}

\* what the file system holds at a path: two complete models and a
\* transducer export whose joiner graph is missing
dirAt(modelPath) ==
    CASE modelPath = "models/whisper" -> WhisperDir(TRUE)
      [] modelPath = "models/sherpa" -> SherpaDir
      [] OTHER -> Dir(TRUE, {"encoder.onnx", "decoder.onnx", "tokens.txt"},
                      "transducer", TRUE, FALSE, MaxVocab)

\* the process has been launched and app.whenReady has not run yet: no
\* handler is waiting, no path was loaded, nothing was deleted from disk
AmNew == [pc |-> "startup", path |-> "null", deleted |-> {}]

\* fs.existsSync(modelPath)
modelDirExists(modelPath) == modelPath \notin am.deleted

\* main.js:1431-1451, app.whenReady: the stored activeModel is loaded again
\* when its directory exists, and the setting is cleared when it does not
AutoLoad ==
    /\ am.pc = "startup"
    /\ LET activeModelPath == store.activeModel
       IN  IF activeModelPath # "null" /\ modelDirExists(activeModelPath)
           THEN /\ ld.id < MaxLoads
                /\ loadModel(dirAt(activeModelPath))
                /\ am' = [am EXCEPT !.pc = "auto-load", !.path = activeModelPath]
                /\ UNCHANGED store
           ELSE /\ store' = [store EXCEPT !.activeModel = "null"]
                /\ am' = [am EXCEPT !.pc = "idle"]
                /\ UNCHANGED <<tokens, engine, ld, lastCall, dispatched, isLoaded>>
    /\ UNCHANGED <<td, ar, pad, isRecording, isProcessing, starting, stopRequests,
                   handlers, returned, sp, added, hk, tmp, cv>>

\* main.js:1437-1444, the auto-load after loadModel has settled: a failed
\* load clears the setting
AutoLoadReturns ==
    /\ am.pc = "auto-load"
    /\ ld.pc = "done"
    /\ store' = IF ld.result = "success" THEN store
                ELSE [store EXCEPT !.activeModel = "null"]
    /\ am' = [am EXCEPT !.pc = "idle"]
    /\ UNCHANGED <<added, hk, tmp, cv, decodeVars, mainVars, engineVars>>

\* main.js:695-696, the load-model handler up to the first await of
\* loadModel; the window that sends the message exists once the auto-load
\* is over
LoadModelHandler ==
    /\ am.pc = "idle"
    /\ ld.pc \in {"idle", "done"}
    /\ ld.id < MaxLoads
    /\ \E modelPath \in ModelPaths \ am.deleted :
          /\ loadModel(dirAt(modelPath))
          /\ am' = [am EXCEPT !.pc = "load-model", !.path = modelPath]
    /\ UNCHANGED <<td, ar, pad, isRecording, isProcessing, starting, stopRequests,
                   handlers, returned, sp, settingsVars, tmp, cv>>

\* main.js:698-703, the load-model handler after loadModel has settled: a
\* successful load stores the path
LoadModelReturns ==
    /\ am.pc = "load-model"
    /\ ld.pc = "done"
    /\ store' = IF ld.result = "success" THEN [store EXCEPT !.activeModel = am.path]
                ELSE store
    /\ am' = [am EXCEPT !.pc = "idle"]
    /\ UNCHANGED <<added, hk, tmp, cv, decodeVars, mainVars, engineVars>>

\* main.js:706-738, the delete-model handler: the active model is unloaded
\* and its setting cleared, then the directory is removed. It runs between
\* the steps of a load-model handler, not before the continuation of a load
\* that has settled; the directory that is being loaded is left alone
DeleteModel ==
    /\ am.pc \in {"idle", "load-model"}
    /\ am.pc = "load-model" => ld.pc # "done"
    /\ \E modelId \in ModelPaths \ am.deleted :
          /\ am.pc = "load-model" => modelId # am.path
          /\ IF store.activeModel # "null" /\ store.activeModel = modelId
             THEN /\ cleanup
                  /\ store' = [store EXCEPT !.activeModel = "null"]
             ELSE UNCHANGED <<engine, isLoaded, lastCall, dispatched, store>>
          /\ am' = [am EXCEPT !.deleted = @ \cup {modelId}]
    /\ UNCHANGED <<tokens, ld, td, ar, pad, isRecording, isProcessing, starting,
                   stopRequests, handlers, returned, sp, added, hk, tmp, cv>>

\* the application quits and is launched again: a new engine, the store and
\* the disk are kept
Relaunch ==
    /\ am.pc = "idle"
    /\ ld.pc \in {"idle", "done"}
    /\ engine' = EngineNew
    /\ isLoaded' = FALSE
    /\ tokens' = [null |-> TRUE, length |-> 0]
    /\ lastCall' = "constructor"
    /\ dispatched' = NoDispatch
    /\ am' = [am EXCEPT !.pc = "startup", !.path = "null"]
    /\ UNCHANGED <<ld, td, ar, pad, isRecording, isProcessing, starting, stopRequests,
                   handlers, returned, sp, settingsVars, tmp, cv>>

(***************************************************************************)
(* The temp directory: the recording written by the audio-data-recorded    *)
(* handler (main.js) and its conversion by convertToWav                    *)
(***************************************************************************)
Recordings == 1 .. MaxRecordings

\* recording_${Date.now()}.webm of recording n, and the path convertToWav
\* derives from it (inferenceEngine.js:373)
webmOf(n) == <<n, ".webm">>

wavOf(n) == <<n, ".wav">>

\* an empty temp directory and no recording handled yet
TmpNew == [files |-> {}, pc |-> [n \in Recordings |-> "none"]]

\* main.js:824-833, the finally block around inferenceEngine.transcribe:
\* audioFilePath is removed when it exists
unlinkAudioFile(files, n) == files \ {webmOf(n)}

\* main.js:806-823 with inferenceEngine.js:423-431: the handler writes the
\* recording and calls transcribe, which throws without a model and else
\* awaits convertToWav
HandleRecording ==
    /\ \E n \in Recordings :
          /\ tmp.pc[n] = "none"
          /\ \A m \in 1 .. n - 1 : tmp.pc[m] # "none"
          /\ \E loaded \in BOOLEAN :
                LET written == tmp.files \cup {webmOf(n)}
                IN  tmp' = IF loaded
                           THEN [files |-> written,
                                 pc |-> [tmp.pc EXCEPT ![n] = "convertToWav"]]
                           ELSE [files |-> unlinkAudioFile(written, n),
                                 pc |-> [tmp.pc EXCEPT ![n] = "done"]]
    /\ UNCHANGED <<am, cv, decodeVars, mainVars, engineVars, settingsVars>>

\* inferenceEngine.js:379-420, FFmpeg ends: it could not be started, it
\* failed, it wrote no output, or the output is there and the WebM file is
\* removed. A rejection passes
\* through transcribe to the handler's finally block
FfmpegSettles ==
    /\ \E n \in Recordings :
          /\ tmp.pc[n] = "convertToWav"
          /\ \E outcome \in {"error", "failed", "no output", "converted"} :
                tmp' = IF outcome = "converted"
                       THEN [files |-> (tmp.files \cup {wavOf(n)}) \ {webmOf(n)},
                             pc |-> [tmp.pc EXCEPT ![n] = "transcribing"]]
                       ELSE [files |-> unlinkAudioFile(tmp.files, n),
                             pc |-> [tmp.pc EXCEPT ![n] = "done"]]
    /\ UNCHANGED <<am, cv, decodeVars, mainVars, engineVars, settingsVars>>

\* inferenceEngine.js:433-445 and main.js:824-833: the transcription of the
\* converted file settles, resolved or rejected, and the handler's finally
\* block runs
TranscriptionSettles ==
    /\ \E n \in Recordings :
          /\ tmp.pc[n] = "transcribing"
          /\ tmp' = [files |-> unlinkAudioFile(tmp.files, n),
                     pc |-> [tmp.pc EXCEPT ![n] = "done"]]
    /\ UNCHANGED <<am, cv, decodeVars, mainVars, engineVars, settingsVars>>

(***************************************************************************)
(* AutoConverter: autoConvert and cancel                                   *)
(***************************************************************************)
Workflows == 1 .. MaxWorkflows

NoProcess == [workflow |-> 0, step |-> "none"]

\* an autoConvert call that has not been made
NoWorkflow == [pc |-> "none", killed |-> FALSE, result |-> "none"]

\* part_017:23-25, the constructor
CvNew ==
    [isConverting |-> FALSE, currentProcess |-> NoProcess,
     workflows |-> [w \in Workflows |-> NoWorkflow]]

\* the autoConvert calls between the assignment of isConverting and the
\* finally block
Running == {w \in Workflows : cv.workflows[w].pc \notin {"none", "done"}}

\* part_017:388-391, the finally block of autoConvert
finished(w, result) ==
    [cv EXCEPT !.isConverting = FALSE, !.currentProcess = NoProcess,
               !.workflows[w] = [pc |-> "done", killed |-> FALSE, result |-> result]]

\* a step that spawns its process and stores it in currentProcess
\* (part_017:129, 233, 323)
spawned(w, step) ==
    [cv EXCEPT !.currentProcess = [workflow |-> w, step |-> step],
               !.workflows[w].pc = step]

\* part_017:330-341, autoConvert is called: it throws while isConverting,
\* else it sets the flag and waits for findPythonExecutable
AutoConvert ==
    /\ \E w \in Workflows :
          /\ cv.workflows[w].pc = "none"
          /\ \A v \in 1 .. w - 1 : cv.workflows[v].pc # "none"
          /\ cv' = IF cv.isConverting
                   THEN [cv EXCEPT !.workflows[w] =
                            [pc |-> "done", killed |-> FALSE,
                             result |-> "Another conversion is already in progress"]]
                   ELSE [cv EXCEPT !.isConverting = TRUE,
                                   !.workflows[w].pc = "findPythonExecutable"]
    /\ UNCHANGED <<am, tmp, decodeVars, mainVars, engineVars, settingsVars>>

\* part_017:340-350 and 91-131: findPythonExecutable settles; without
\* Python the workflow throws, else createVirtualEnv resolves at once when
\* the environment exists and spawns python -m venv when it does not
PythonFound ==
    /\ \E w \in Workflows :
          /\ cv.workflows[w].pc = "findPythonExecutable"
          /\ \E pythonCmd \in {"null", "python3"}, venvExists \in BOOLEAN :
                cv' = IF pythonCmd = "null" THEN finished(w, "error")
                      ELSE IF venvExists
                      THEN [cv EXCEPT !.workflows[w].pc = "checkPythonPackages"]
                      ELSE spawned(w, "createVirtualEnv")
    /\ UNCHANGED <<am, tmp, decodeVars, mainVars, engineVars, settingsVars>>

\* part_017:116-127 and 353-355: the venv process closes; a killed process
\* closes with a null code, which rejects
VirtualEnvCreated ==
    /\ \E w \in Workflows :
          /\ cv.workflows[w].pc = "createVirtualEnv"
          /\ \E code \in IF cv.workflows[w].killed THEN {nullCode} ELSE {0, 1} :
                cv' = IF code = 0
                      THEN [cv EXCEPT !.workflows[w].pc = "checkPythonPackages"]
                      ELSE finished(w, "error")
    /\ UNCHANGED <<am, tmp, decodeVars, mainVars, engineVars, settingsVars>>

\* part_017:135-159 and 355-366: checkPythonPackages resolves (its process
\* is not stored); installPythonDependencies or convertModel begins, and
\* convertModel rejects at once when its script is missing
PackagesChecked ==
    /\ \E w \in Workflows :
          /\ cv.workflows[w].pc = "checkPythonPackages"
          /\ \E hasPackages \in BOOLEAN, scriptExists \in BOOLEAN :
                cv' = IF ~hasPackages THEN spawned(w, "installPythonDependencies")
                      ELSE IF scriptExists THEN spawned(w, "convertModel")
                      ELSE finished(w, "error")
    /\ UNCHANGED <<am, tmp, decodeVars, mainVars, engineVars, settingsVars>>

\* part_017:164-235 and 366: the pip installations close (the two
\* runPipInstall calls are one step); then convertModel begins
DependenciesInstalled ==
    /\ \E w \in Workflows :
          /\ cv.workflows[w].pc = "installPythonDependencies"
          /\ \E code \in IF cv.workflows[w].killed THEN {nullCode} ELSE {0, 1},
                scriptExists \in BOOLEAN :
                cv' = IF code # 0 THEN finished(w, "error")
                      ELSE IF scriptExists THEN spawned(w, "convertModel")
                      ELSE finished(w, "error")
    /\ UNCHANGED <<am, tmp, decodeVars, mainVars, engineVars, settingsVars>>

\* part_017:311-321 and 366-378: the conversion process closes and
\* autoConvert returns or throws through its finally block
ModelConverted ==
    /\ \E w \in Workflows :
          /\ cv.workflows[w].pc = "convertModel"
          /\ \E code \in IF cv.workflows[w].killed THEN {nullCode} ELSE {0, 1} :
                cv' = finished(w, IF code = 0 THEN "success" ELSE "error")
    /\ UNCHANGED <<am, tmp, decodeVars, mainVars, engineVars, settingsVars>>

\* part_017:397-403, cancel: the stored process is killed, which ends it
\* when it is the process the workflow waits for, and both fields are reset
Cancel ==
    /\ cv' = IF cv.currentProcess # NoProcess
             THEN LET w == cv.currentProcess.workflow
                      live == cv.workflows[w].pc = cv.currentProcess.step
                  IN  [cv EXCEPT !.currentProcess = NoProcess,
                                 !.isConverting = FALSE,
                                 !.workflows[w].killed = @ \/ live]
             ELSE cv
    /\ UNCHANGED <<am, tmp, decodeVars, mainVars, engineVars, settingsVars>>

\* the application's managers before anything was asked of them
AppIdle ==
    /\ am = AmNew
    /\ tmp = TmpNew
    /\ cv = CvNew

(***************************************************************************)
(* Specifications                                                          *)
(***************************************************************************)
InitTransducer ==
    /\ tokens \in TokenLists
    /\ ar = ArIdle
    /\ pad = PadIdle
    /\ MainIdle
    /\ EngineIdle
    /\ SettingsIdle
    /\ AppIdle
    /\ td \in {TdCall(in) : in \in TdShortInputs \cup TdLongInputs}

NextTransducer ==
    \/ TdStart
    \/ TdOuter
    \/ TdInner
    \/ TdRunDecoder
    \/ TdRunJoiner
    \/ TdSelect

SpecTransducer == InitTransducer /\ [][NextTransducer]_vars

\* the decode loop is a chain of awaited runs: every step that can be taken is taken
FairSpecTransducer == SpecTransducer /\ WF_vars(NextTransducer)

InitAutoregressive ==
    /\ tokens = [null |-> TRUE, length |-> 0]
    /\ td = TdIdle
    /\ pad = PadIdle
    /\ MainIdle
    /\ EngineIdle
    /\ SettingsIdle
    /\ AppIdle
    /\ ar \in {ArCall(in) : in \in ArShortInputs \cup ArLongInputs}

NextAutoregressive ==
    \/ ArStart
    \/ ArPrompt
    \/ ArGenerate

SpecAutoregressive == InitAutoregressive /\ [][NextAutoregressive]_vars

\* the decode loop is a chain of awaited runs: every step that can be taken is taken
FairSpecAutoregressive == SpecAutoregressive /\ WF_vars(NextAutoregressive)

InitPad ==
    /\ tokens = [null |-> TRUE, length |-> 0]
    /\ td = TdIdle
    /\ ar = ArIdle
    /\ MainIdle
    /\ EngineIdle
    /\ SettingsIdle
    /\ AppIdle
    /\ pad \in {PadCall(f) : f \in FeatureTensors}

NextPad ==
    \/ PadStart
    \/ PadCopy
    \/ TruncateCopy

SpecPad == InitPad /\ [][NextPad]_vars

\* the application once a model is loaded (startRecording refuses without one)
InitMain ==
    /\ tokens = [null |-> TRUE, length |-> 0]
    /\ td = TdIdle
    /\ ar = ArIdle
    /\ pad = PadIdle
    /\ isLoaded \in BOOLEAN
    /\ isRecording = FALSE
    /\ isProcessing = FALSE
    /\ starting = 0
    /\ stopRequests = 0
    /\ handlers = [h \in Slots |-> FreeSlot]
    /\ returned = NoReturn
    /\ EngineIdle
    /\ SettingsIdle
    /\ AppIdle

NextMain ==
    \/ ToggleRecording
    \/ StartRecordingResume
    \/ AudioDataRecorded
    \/ \E h \in Slots : TranscribeSettles(h)
    \/ \E h \in Slots : PasteSettles(h)
    \/ \E h \in Slots : SafetyTimeout(h)

SpecMain == InitMain /\ [][NextMain]_vars

\* an armed timer fires after its 30 seconds; nothing makes a transcription
\* or a paste settle, nor the user press the hotkey
FairSpecMain == SpecMain /\ \A h \in Slots : WF_vars(SafetyTimeout(h))

\* a new engine (main.js:1421), on which loadModel, cleanup and transcribe
\* are called
InitLoad ==
    /\ tokens = [null |-> TRUE, length |-> 0]
    /\ td = TdIdle
    /\ ar = ArIdle
    /\ pad = PadIdle
    /\ MainIdle
    /\ EngineIdle
    /\ SettingsIdle
    /\ AppIdle

NextLoad ==
    \/ LoadModel
    \/ EncoderCreated
    \/ DecoderCreated
    \/ JoinerCreated
    \/ DecoderWithPastCreated
    \/ SingleSessionCreated
    \/ Cleanup
    \/ Transcribe

SpecLoad == InitLoad /\ [][NextLoad]_vars

\* one call that spawns a subprocess, after the call has returned its promise
InitProcess ==
    /\ tokens = [null |-> TRUE, length |-> 0]
    /\ td = TdIdle
    /\ ar = ArIdle
    /\ pad = PadIdle
    /\ MainIdle
    /\ SettingsIdle
    /\ AppIdle
    /\ engine = EngineNew
    /\ ld = LdIdle
    /\ lastCall = "constructor"
    /\ dispatched = NoDispatch
    /\ sp \in UNION {{SpCall(kind, precheck) : precheck \in Prechecks(kind)} :
                      kind \in SpawningCalls}

NextProcess ==
    \/ ProcessWrites
    \/ ProcessExits
    \/ SpawnError
    \/ SherpaTimeout
    \/ SpawnTimeout
    \/ ProcessClosed

SpecProcess == InitProcess /\ [][NextProcess]_vars

\* timers fire and the close event of a process that has ended is delivered;
\* nothing makes the process write or exit
FairSpecProcess ==
    /\ SpecProcess
    /\ WF_vars(SherpaTimeout)
    /\ WF_vars(SpawnTimeout)
    /\ WF_vars(ProcessClosed)

\* the store and the settings view of a new installation: an empty history
\* and the default hotkey
InitSettings ==
    /\ tokens = [null |-> TRUE, length |-> 0]
    /\ td = TdIdle
    /\ ar = ArIdle
    /\ pad = PadIdle
    /\ MainIdle
    /\ EngineIdle
    /\ SettingsIdle
    /\ AppIdle

NextHistory ==
    \/ AddToHistory
    \/ ClearHistory

SpecHistory == InitSettings /\ [][NextHistory]_vars

\* the settings view, in which hotkeys are captured
NextHotkey ==
    \/ StartHotkeyCapture
    \/ HandleHotkeyCapture
    \/ StopHotkeyCapture

SpecHotkey == InitSettings /\ [][NextHotkey]_vars

\* the managers of the main process right after the launch of a new
\* installation
InitApp ==
    /\ tokens = [null |-> TRUE, length |-> 0]
    /\ td = TdIdle
    /\ ar = ArIdle
    /\ pad = PadIdle
    /\ MainIdle
    /\ EngineIdle
    /\ SettingsIdle
    /\ AppIdle

\* the handlers that keep the activeModel setting, with the session
\* creations of the loads they start
NextActiveModel ==
    \/ AutoLoad
    \/ AutoLoadReturns
    \/ LoadModelHandler
    \/ LoadModelReturns
    \/ DeleteModel
    \/ Relaunch
    \/ EncoderCreated
    \/ DecoderCreated
    \/ JoinerCreated
    \/ DecoderWithPastCreated

SpecActiveModel == InitApp /\ [][NextActiveModel]_vars

\* one call of a wrapper with a manual timeout, its process spawned
InitManualTimeout ==
    /\ tokens = [null |-> TRUE, length |-> 0]
    /\ td = TdIdle
    /\ ar = ArIdle
    /\ pad = PadIdle
    /\ MainIdle
    /\ SettingsIdle
    /\ AppIdle
    /\ engine = EngineNew
    /\ ld = LdIdle
    /\ lastCall = "constructor"
    /\ dispatched = NoDispatch
    /\ sp \in {SpCall(kind, "ok") : kind \in ManualTimeoutCalls}

NextManualTimeout ==
    \/ ProcessWrites
    \/ ProcessExits
    \/ SpawnError
    \/ SherpaTimeout
    \/ ProcessClosed

SpecManualTimeout == InitManualTimeout /\ [][NextManualTimeout]_vars

\* the recordings the audio-data-recorded handler writes to the temp directory
NextTemp ==
    \/ HandleRecording
    \/ FfmpegSettles
    \/ TranscriptionSettles

SpecTemp == InitApp /\ [][NextTemp]_vars

\* autoConvert and cancel calls on one AutoConverter
NextConvert ==
    \/ AutoConvert
    \/ PythonFound
    \/ VirtualEnvCreated
    \/ PackagesChecked
    \/ DependenciesInstalled
    \/ ModelConverted
    \/ Cancel

SpecConvert == InitApp /\ [][NextConvert]_vars

(***************************************************************************)
(* Properties of greedyTransducerDecode                                    *)
(***************************************************************************)
\* the joiner of this call selects blank at every call: so does its periodic
\* blank response, and so does its ordinary response (or it is never given)
AlwaysBlankJoiner ==
    /\ bestTokenOf(LogitsTensor(BlankLogits(Len(td.joinerLogits), tokens)), tokens)
           = blankIdOf(tokens)
    /\ \/ td.period = 1
       \/ bestTokenOf(LogitsTensor(td.joinerLogits), tokens) = blankIdOf(tokens)

\* the joiner of this call never selects blank: it has no periodic blank
\* response and its ordinary response selects another token
NeverBlankJoiner ==
    /\ td.period = 0
    /\ bestTokenOf(LogitsTensor(td.joinerLogits), tokens) # blankIdOf(tokens)

\* a selection has been made and td.bestToken is the one made on td.logits
Selected == td.joinerRuns > 0 /\ td.pc \in {"inner", "decoder", "joiner", "outer", "done"}

\* C1: with a joiner that selects blank at every call, each outer iteration
\* that has ended performed exactly one decoder run and one joiner run and
\* emitted nothing, and the call ends after exactly T outer iterations with
\* an empty token sequence.
C1_AllBlankTerminatesAfterT ==
    (AlwaysBlankJoiner /\ td.pc \in {"outer", "done"}) =>
        /\ td.tokenIds = <<>>
        /\ td.outerIterations = td.t
        /\ td.decoderRuns = td.t
        /\ td.joinerRuns = td.t
        /\ (td.pc = "done" => td.t = td.T)

C1_Witness ==
    /\ AlwaysBlankJoiner
    /\ td.pc = "done"
    /\ td.T = LongT
    /\ td.joinerRuns = LongT

\* C2: with a joiner that never selects blank, no frame takes more than 10
\* inner iterations, the frame whose 10 iterations are used up is left for
\* frame t+1, and the call terminates.
C2_NeverBlankStillAdvances ==
    /\ [](NeverBlankJoiner =>
            /\ td.innerSteps <= maxInnerSteps
            /\ td.decoderRuns <= maxInnerSteps * td.outerIterations)
    /\ [][(NeverBlankJoiner /\ td.pc = "inner" /\ td.innerSteps = maxInnerSteps)
            => (td'.pc = "outer" /\ td'.t = td.t + 1)]_vars
    /\ <>(NeverBlankJoiner => td.pc = "done")

C2_Witness ==
    /\ NeverBlankJoiner
    /\ td.pc = "done"
    /\ td.T = MaxShortT
    /\ td.t = td.T
    /\ td.decoderRuns = maxInnerSteps * td.T

\* C3: the number of tokens emitted by one call never exceeds the limit of 500.
C3_TokenCap == Len(td.tokenIds) <= maxSteps

\* C4 as stated: every selected token index lies in 0 .. min(joinerVocabSize,
\* tokenVocabSize) - 1.
C4_SelectedInValidRange ==
    Selected => td.bestToken \in 0 .. maxValidTokenOf(td.logits, tokens) - 1

\* C4 as amended: the selected index lies in the valid range or is the blank
\* ID, and the blank ID is selected outside the range only when no logit of
\* the range is greater than -Infinity; no joiner entry at or beyond the token
\* vocabulary size is ever selected.
C4_SelectedInValidRangeOrBlank ==
    Selected =>
        /\ \/ td.bestToken \in 0 .. maxValidTokenOf(td.logits, tokens) - 1
           \/ /\ td.bestToken = td.blankId
              /\ \A v \in 1 .. maxValidTokenOf(td.logits, tokens) :
                     td.logits.data[v] = NegInf
        /\ td.bestToken < decoderVocabSizeOf(tokens)
        /\ \A v \in 1 .. maxValidTokenOf(td.logits, tokens) :
               td.bestToken \in 0 .. maxValidTokenOf(td.logits, tokens) - 1
                   => td.logits.data[v] <= td.logits.data[td.bestToken + 1]

\* a joiner vocabulary larger than the token vocabulary whose strongest entry
\* is a trailing one, and a selection made on it
C4_Witness ==
    /\ Selected
    /\ ~tokens.null
    /\ vocabSizeOf(td.logits) > tokens.length
    /\ td.logits.data[vocabSizeOf(td.logits)] = MaxLogit
    /\ \A v \in 1 .. tokens.length : td.logits.data[v] < MaxLogit
    /\ td.bestToken \in 0 .. tokens.length - 1

(***************************************************************************)
(* Properties of autoregressiveDecode                                      *)
(***************************************************************************)
\* the entry of a logits row at a vocabulary index
ValueAt(row, idx) ==
    IF \E k \in 1 .. Len(Support) : Support[k] = idx
    THEN row[CHOOSE k \in 1 .. Len(Support) : Support[k] = idx]
    ELSE NegInf

\* the places of Support inside a vocabulary
Scanned(vocabSize) == {k \in 1 .. Len(Support) : Support[k] < vocabSize}

ArPromptOf(f) == <<SOT, langTokenOf(f.language), TRANSCRIBE, NO_TIMESTAMPS>>

\* C5: when the argmax of the first free-generation step is end-of-text, the
\* call ends there and returns exactly the 4-token prompt.
C5_EotAtFirstStepReturnsPrompt ==
    (Len(ar.selected) >= 1 /\ ar.selected[1] = EOT) =>
        /\ ar.pc = "done"
        /\ Len(ar.tokenIds) = 4
        /\ ar.tokenIds = ArPromptOf(ar)

C5_Witness ==
    /\ ar.pc = "done"
    /\ ar.selected = <<EOT>>
    /\ Len(ar.calls) = 5

\* the state part of C6
C6_Inv ==
    /\ Len(ar.tokenIds) <= maxLength
    /\ \A j \in 5 .. Len(ar.tokenIds) : ar.tokenIds[j] # EOT
    /\ ar.pc = "done" =>
          LET n == Len(ar.selected)
          IN  \/ /\ n >= 1
                 /\ ar.selected[n] = EOT
                 /\ \A j \in 1 .. n - 1 : ar.selected[j] # EOT
                 /\ ar.tokenIds = ArPromptOf(ar) \o SubSeq(ar.selected, 1, n - 1)
                 /\ Len(ar.tokenIds) < maxLength
              \/ /\ Len(ar.tokenIds) = maxLength
                 /\ \A j \in 1 .. n : ar.selected[j] # EOT
                 /\ ar.tokenIds = ArPromptOf(ar) \o ar.selected

\* C6: the call terminates (returns) for every decoder behaviour: at the
\* first step whose argmax is end-of-text, which is not appended, or with a
\* sequence of the maximum length of 448, prompt included; the sequence never
\* exceeds 448 tokens.
C6_TerminatesAtEotOrMaxLength == [](C6_Inv) /\ <>(ar.pc = "done")

C6_Witness ==
    /\ ar.pc = "done"
    /\ Len(ar.tokenIds) = maxLength
    /\ Len(ar.selected) = maxLength - 4

\* C7: the selected token is the smallest index that attains the maximum of
\* the final-position logits (index 0 when every entry is -Infinity); with
\* equal logits over the whole vocabulary index 0 is selected.
C7_ArgmaxIsFirstMaximum ==
    Len(ar.selected) >= 1 =>
        LET row == lastTokenLogitsOf(ar.logits)
            n == ar.nextTokenId
            V == ar.logits.dims[3]
        IN  /\ n = 0 \/ (n < V /\ ValueAt(row, n) > NegInf)
            /\ \A k \in Scanned(V) : row[k] <= ValueAt(row, n)
            /\ \A k \in Scanned(V) : Support[k] < n => row[k] < ValueAt(row, n)
            /\ (\A k, m \in Scanned(V) : row[k] = row[m]) => n = 0

\* uniform finite logits over a whole (two-entry) vocabulary at every step of
\* a call that ran to the maximum length
C7_Witness ==
    /\ ar.pc = "done"
    /\ ar.vocabSize = 2
    /\ \A k \in 1 .. Len(Support) : ar.baseRow[k] = 0
    /\ Len(ar.selected) = maxLength - 4
    /\ \A j \in 1 .. Len(ar.selected) : ar.selected[j] = 0

(***************************************************************************)
(* Properties of padFeaturesToWhisperLength                                *)
(***************************************************************************)
\* element (b, mel, t) of a tensor [batch, melBins, timeSteps] in row-major order
At(x, b, mel, t) == x.data[b * x.dims[2] * x.dims[3] + mel * x.dims[3] + t + 1]

\* C8: a tensor with fewer frames than required is returned with the
\* required length, its first timeSteps frames of every mel row equal to the
\* input's and the remaining frames exactly zero.
C8_PaddingKeepsFramesAndAppendsZeros ==
    (pad.pc = "done" /\ pad.features.dims[3] < WHISPER_TIME_STEPS) =>
        /\ pad.result.dims = <<pad.features.dims[1], WHISPER_N_MELS, WHISPER_TIME_STEPS>>
        /\ Len(pad.result.data) = pad.features.dims[1] * WHISPER_N_MELS * WHISPER_TIME_STEPS
        /\ \A b \in 0 .. pad.features.dims[1] - 1, mel \in 0 .. WHISPER_N_MELS - 1,
              t \in 0 .. WHISPER_TIME_STEPS - 1 :
                At(pad.result, b, mel, t) =
                    IF t < pad.features.dims[3] THEN At(pad.features, b, mel, t) ELSE 0

C8_Witness ==
    /\ pad.pc = "done"
    /\ pad.features.dims = <<MaxBatch, WHISPER_N_MELS, WHISPER_TIME_STEPS - 1>>
    /\ pad.features.data[Len(pad.features.data)] = Len(pad.features.data)
    /\ ~pad.returnsInput

\* C9: a tensor with more frames than required is returned with exactly the
\* first requiredLength frames of every mel row, in order: frame t of the
\* output is frame t of the input.
C9_TruncationKeepsFirstFrames ==
    (pad.pc = "done" /\ pad.features.dims[3] > WHISPER_TIME_STEPS) =>
        /\ pad.result.dims = <<pad.features.dims[1], WHISPER_N_MELS, WHISPER_TIME_STEPS>>
        /\ Len(pad.result.data) = pad.features.dims[1] * WHISPER_N_MELS * WHISPER_TIME_STEPS
        /\ \A b \in 0 .. pad.features.dims[1] - 1, mel \in 0 .. WHISPER_N_MELS - 1,
              t \in 0 .. WHISPER_TIME_STEPS - 1 :
                At(pad.result, b, mel, t) = At(pad.features, b, mel, t)

C9_Witness ==
    /\ pad.pc = "done"
    /\ pad.features.dims = <<MaxBatch, WHISPER_N_MELS, WHISPER_TIME_STEPS + MaxExtraFrames>>
    /\ pad.features.data[Len(pad.features.data)] = Len(pad.features.data)
    /\ pad.warned

(***************************************************************************)
(* Properties of the main process                                          *)
(***************************************************************************)
\* C10: at most one inferenceEngine.transcribe call is in flight at any time.
C10_SingleTranscriptionInFlight == Cardinality(InFlight) <= 1

(***************************************************************************)
(* Properties of loadModel and cleanup                                     *)
(***************************************************************************)
\* the loads whose sessions or vocabulary the engine holds
HeldLoads ==
    {engine.session, engine.encoderSession, engine.decoderSession,
     engine.decoderWithPastSession, engine.joinerSession,
     engine.tokensLoad, engine.tokenizer} \ {null}

\* C11: after any sequence of loadModel calls the engine never holds session
\* handles or a vocabulary that belong to two different model loads.
C11_HandlesOfOneLoad == Cardinality(HeldLoads) <= 1

\* C12: once cleanup has run, every session (single graph, encoder, decoder,
\* decoder-with-cache, joiner) is released, the tokenizer and the transducer
\* token list are cleared and no model is loaded.
C12_CleanupReleasesEverything ==
    lastCall = "cleanup" =>
        /\ HeldLoads = {}
        /\ tokens.null
        /\ ~isLoaded
        /\ engine.architecture = "null"

\* the directory of the load holds the complete quantized transducer file set
HasQuantizedSet(d) == d.isDirectory /\ Int8Files \subseteq d.files

\* C13: a directory holding the complete quantized set and a model.onnx is
\* loaded with the sherpa-onnx (external process) loader, never as a single
\* graph: no session is opened, and the load succeeds exactly when the
\* driver script is installed.
C13_QuantizedBeforeSingleGraph ==
    (ld.pc # "idle" /\ HasQuantizedSet(ld.dir) /\ existsSync(ld.dir, "model.onnx")) =>
        /\ ld.loader = "loadSherpaOnnxModel"
        /\ ld.pc = "done"
        /\ ld.opened = {}
        /\ (ld.result = "success") = ld.dir.script
        /\ lastCall = "loadModel" =>
               /\ engine.architecture = "sherpa-onnx"
               /\ isLoaded = ld.dir.script

C13_Witness ==
    /\ ld.pc = "done"
    /\ HasQuantizedSet(ld.dir)
    /\ existsSync(ld.dir, "model.onnx")
    /\ ld.result = "success"
    /\ engine.architecture = "sherpa-onnx"
    /\ isLoaded

\* the directory of the load lacks part of the quantized set and its
\* config.json declares model_type 'transducer'
ManifestTransducer(d) ==
    d.isDirectory /\ ~(Int8Files \subseteq d.files) /\ d.config = "transducer"

\* C14 as stated: such a directory is loaded by an external-process loader
\* and no graph is opened in this process.
C14_ManifestSelectsExternalProcess ==
    (ld.pc # "idle" /\ ManifestTransducer(ld.dir)) =>
        /\ ld.loader \in {"loadSherpaOnnxModel", "loadNeMoModel"}
        /\ ld.opened = {}

\* C14 as amended: without encoder.int8.onnx such a directory is loaded by
\* loadTransducerModel, which opens the encoder, decoder and joiner graphs
\* in this process and succeeds exactly when all three sessions are created;
\* with encoder.int8.onnx (and the rest of the quantized set incomplete) the
\* sherpa-onnx loader is entered and the load fails.
C14_ManifestSelectsInProcessTransducer ==
    (ld.pc # "idle" /\ ManifestTransducer(ld.dir)) =>
        IF existsSync(ld.dir, "encoder.int8.onnx")
        THEN /\ ld.loader = "loadSherpaOnnxModel"
             /\ ld.pc = "done"
             /\ ld.result # "success"
             /\ ld.opened = {}
        ELSE /\ ld.loader = "loadTransducerModel"
             /\ ld.pc = "done" =>
                   (ld.result = "success") =
                       (\A f \in TransducerFiles :
                            createSucceeds(ld.dir, transducerPath(ld.dir, f)))
             /\ (ld.pc = "done" /\ ld.result = "success") =>
                   ld.opened = {transducerPath(ld.dir, f) : f \in TransducerFiles}

C14_Witness ==
    /\ ld.pc = "done"
    /\ ManifestTransducer(ld.dir)
    /\ ~existsSync(ld.dir, "encoder.int8.onnx")
    /\ ld.result = "success"
    /\ ld.opened = TransducerFiles
    /\ engine.architecture = "transducer"
    /\ engine.joinerSession = ld.id

\* the loader of the first rule whose files all exist: the quantized set,
\* the manifest, the transducer triple (in the directory or under onnx/),
\* the three-graph split, the single graph
FirstCompleteMatch(d) ==
    IF Int8Files \subseteq d.files THEN "loadSherpaOnnxModel"
    ELSE IF d.config = "transducer" THEN "loadTransducerModel"
    ELSE IF TransducerFiles \subseteq d.files \/ OnnxSubdir \subseteq d.files
    THEN "loadTransducerModel"
    ELSE IF WhisperFiles \subseteq d.files THEN "loadMultiModel"
    ELSE IF existsSync(d, "model.onnx") THEN "loadSingleModel"
    ELSE "throw"

\* C15: detection picks the first rule whose named files all exist, falls
\* through a rule whose file set is incomplete, and fails only when no rule
\* matches.
C15_FirstCompleteMatchWins ==
    (ld.pc = "done" /\ ld.dir.isDirectory) =>
        IF FirstCompleteMatch(ld.dir) = "throw"
        THEN ld.result # "success"
        ELSE ld.loader = FirstCompleteMatch(ld.dir)

(***************************************************************************)
(* Properties of the subprocess calls                                      *)
(***************************************************************************)
\* C16: a call of extractFeatures, extractFeaturesForTransducer or
\* transcribeSherpaOnnx never stays pending: whatever the subprocess does,
\* also when it never exits, the call eventually settles.
C16_SubprocessCallsSettle ==
    [](sp.kind \in {"extractFeatures", "extractFeaturesForTransducer",
                    "transcribeSherpaOnnx"}
          => <>(sp.outcome # Pending))

\* the close handler ran before any timer fired, so it settled the call
SettledByClose ==
    /\ sp.kind \in {"transcribeSherpaOnnx", "transcribeNeMo"}
    /\ sp.closes = 1
    /\ sp.timeoutId = "cleared"

RECURSIVE FinalLine(_)
\* the last line of the output that is not blank
FinalLine(stdout) ==
    IF stdout = <<>> THEN BlankLine
    ELSE IF stdout[Len(stdout)] # BlankLine THEN stdout[Len(stdout)]
    ELSE FinalLine(SubSeq(stdout, 1, Len(stdout) - 1))

\* C17: on both external-process transcriptions, a non-zero exit whose
\* final stdout line is a JSON record carrying an error message fails with
\* that message, not with the exit-code error.
C17_StructuredErrorPreferred ==
    (/\ SettledByClose
     /\ sp.code # 0
     /\ FinalLine(sp.stdout).type = "object"
     /\ Truthy(FinalLine(sp.stdout).error)) =>
        sp.outcome = Rejected("structured", FinalLine(sp.stdout).error)

\* C18: the outcome of a closed external-process transcription is the
\* outcome of its exit code and its final line alone, whatever lines precede
\* it; a zero exit whose final line does not parse is rejected with the
\* parse error, which no non-zero exit produces.
C18_OnlyFinalLineCounts ==
    SettledByClose =>
        /\ sp.outcome = IF sp.kind = "transcribeSherpaOnnx"
                        THEN sherpaClose(sp.code, <<FinalLine(sp.stdout)>>)
                        ELSE nemoClose(sp.code, <<FinalLine(sp.stdout)>>)
        /\ (sp.code = 0 /\ parseThrows(FinalLine(sp.stdout))) =>
               (sp.outcome.kind = "rejected" /\ sp.outcome.value[1] = "parse")
        /\ sp.code # 0 =>
               (sp.outcome.kind = "rejected" /\ sp.outcome.value[1] # "parse")

C18_Witness ==
    /\ SettledByClose
    /\ sp.code = 0
    /\ sp.stdout = <<JsonObject("true", "bonjour", undefined), DiagLine>>
    /\ sp.outcome = Rejected("parse", undefined)

(***************************************************************************)
(* Properties of the transcription result                                  *)
(***************************************************************************)
\* C19: in the single-graph path an output tensor whose rank is neither 2
\* nor 3 is a failure: the handler never returns success for it, and no text
\* is copied to the clipboard or pasted.
C19_WrongRankIsHardFailure ==
    (returned.call.architecture = "single-model" /\ returned.call.rank \notin {2, 3}) =>
        /\ ~returned.reply.success
        /\ returned.copied = undefined
        /\ ~returned.pasteCalled

\* the call decoded validly to empty text: a single graph whose tokenizer
\* decodes a tensor of rank 2 or 3 to blank text, or a sherpa-onnx process
\* that exits with 0 and a final record of success true and text ""
ValidEmptyDecode(call) ==
    \/ /\ call.architecture = "single-model"
       /\ call.tokenizer
       /\ call.rank \in {2, 3}
       /\ IsBlank(call.decoded)
    \/ /\ call.architecture = "sherpa-onnx"
       /\ call.code = 0
       /\ call.line = JsonObject("true", "", undefined)

\* C20: a transcription that decodes validly to empty text is returned by
\* the audio-data-recorded handler as success with empty text, never as an
\* error.
C20_EmptyTextIsSuccess ==
    ValidEmptyDecode(returned.call) =>
        /\ returned.reply.success
        /\ returned.reply.text = ""

(***************************************************************************)
(* Properties of the blank and non-blank branches of greedyTransducerDecode*)
(***************************************************************************)
\* the inner step at hand selects this token
SelectedToken == bestTokenOf(td.logits, tokens)

\* the selection step committed the states its decoder run produced
StatesCommitted ==
    /\ td.newState1 # 0 => td'.decoderState1 = td.newState1
    /\ td.newState2 # 0 => td'.decoderState2 = td.newState2

\* C29: an inner step that selects the blank ID appends nothing, leaves
\* prevToken unchanged and commits the decoder states of its decoder run;
\* the decoder run that follows a blank selection is on frame t+1.
C29_BlankCommitsAndAdvances ==
    [][/\ (td.pc = "select" /\ SelectedToken = td.blankId) =>
            /\ td'.tokenIds = td.tokenIds
            /\ td'.prevToken = td.prevToken
            /\ StatesCommitted
       /\ (td.pc = "decoder" /\ td.joinerRuns > 0 /\ td.bestToken = td.blankId) =>
            /\ td.encoderSlice = td.selectFrame + 1
            /\ td.innerSteps = 1]_vars

C29_Witness ==
    /\ td.pc = "joiner"
    /\ td.joinerRuns > 0
    /\ td.bestToken = td.blankId
    /\ td.tokenIds # <<>>
    /\ td.encoderSlice = td.selectFrame + 1
    /\ td.decoderState1 = td.decoderRuns - 1
    /\ td.targets = td.prevToken
    /\ td.targets # td.blankId

\* C30: an inner step that selects a non-blank token appends it, makes it
\* prevToken and commits the decoder states of its decoder run; the decoder
\* run that follows receives that token and, unless the step was the 10th of
\* its frame, is the next inner step on the same frame; no frame has more than
\* 10 inner steps.
C30_NonBlankEmitsAndStays ==
    [][/\ (td.pc = "select" /\ SelectedToken # td.blankId) =>
            /\ td'.tokenIds = Append(td.tokenIds, SelectedToken)
            /\ td'.prevToken = SelectedToken
            /\ StatesCommitted
       /\ (td.pc = "decoder" /\ td.joinerRuns > 0 /\ td.bestToken # td.blankId) =>
            /\ td'.targets = td.bestToken
            /\ td.selectSteps < maxInnerSteps =>
                   (td.encoderSlice = td.selectFrame /\ td.innerSteps = td.selectSteps + 1)
            /\ td.selectSteps = maxInnerSteps =>
                   (td.encoderSlice = td.selectFrame + 1 /\ td.innerSteps = 1)
       /\ td.innerSteps <= maxInnerSteps]_vars

C30_Witness ==
    /\ td.pc = "joiner"
    /\ td.t = 0
    /\ td.innerSteps = maxInnerSteps
    /\ Len(td.tokenIds) = maxInnerSteps - 1
    /\ td.targets = td.bestToken
    /\ td.targets = td.tokenIds[Len(td.tokenIds)]
    /\ td.decoderState1 = td.decoderRuns - 1

(***************************************************************************)
(* Properties of the caches and decoder calls of autoregressiveDecode      *)
(***************************************************************************)
\* the output names of the latest decoder call
LastOutputKeys ==
    IF ar.calls[Len(ar.calls)].session = "decoder"
    THEN decoderOutputKeys
    ELSE decoderWithPastOutputKeys(ar)

\* the cache entry the latest decoder call's output of this name gives
LastEntry(key) == [key |-> replacePresent(key), from |-> Len(ar.calls)]

CacheKeys(cache) == {e.key : e \in cache}

\* C24 as stated: the key sets of the two caches are disjoint, and every
\* present.* output of the latest decoder call is held by exactly one of the
\* two caches.
C24_PresentOutputsPartitioned ==
    ar.calls # <<>> =>
        /\ CacheKeys(ar.encoderKeyValues) \cap CacheKeys(ar.pastKeyValues) = {}
        /\ \A key \in {x \in LastOutputKeys : startsWithPresent(x)} :
               (LastEntry(key) \in ar.encoderKeyValues)
                   # (LastEntry(key) \in ar.pastKeyValues)

\* C24 as amended: the key sets of the two caches are disjoint; every
\* present.*.decoder.* output of the latest decoder call is held by the
\* decoder cache only; a present.*.encoder.* output is held by the encoder
\* cache only when the call is the first one, and is held by neither cache
\* when the call is a later one, the encoder cache keeping the first call's
\* tensor under that name.
C24_EncoderCacheFromFirstStepOnly ==
    ar.calls # <<>> =>
        /\ CacheKeys(ar.encoderKeyValues) \cap CacheKeys(ar.pastKeyValues) = {}
        /\ \A e \in ar.encoderKeyValues : e.from = 1
        /\ \A key \in {x \in LastOutputKeys : startsWithPresent(x)} :
               IF includesRole(key, "decoder")
               THEN /\ LastEntry(key) \in ar.pastKeyValues
                    /\ replacePresent(key) \notin CacheKeys(ar.encoderKeyValues)
               ELSE /\ [key |-> replacePresent(key), from |-> 1] \in ar.encoderKeyValues
                    /\ replacePresent(key) \notin CacheKeys(ar.pastKeyValues)

C24_Witness ==
    /\ ar.pastEmitsEncoder
    /\ ar.pc = "done"
    /\ Len(ar.calls) > Len(promptTokensOf(ar.language)) + 1
    /\ PresentKeys("encoder") \subseteq LastOutputKeys
    /\ \A key \in PresentKeys("encoder") : LastEntry(key) \notin ar.encoderKeyValues
    /\ \A key \in PresentKeys("decoder") : LastEntry(key) \in ar.pastKeyValues

\* C28: the input token of the k-th decoder call is the token at the k-th
\* position of the token sequence, for every call made so far.
C28_EachPositionFedOnce ==
    \A k \in 1 .. Len(ar.calls) :
        /\ k <= Len(ar.tokenIds)
        /\ ar.calls[k].input_ids = ar.tokenIds[k]

(***************************************************************************)
(* Properties of the feature extractions                                   *)
(***************************************************************************)
\* the mel-bin count a feature extraction asks its script for: the default
\* of 80, or --n_mels 128
RequestedMelBins(kind) == IF kind = "extractFeatures" THEN 80 ELSE 128

\* the shape [n_mels, time_steps] a printed shape stands for
ShapeOf(text) ==
    CASE text = "[80, 5]" -> <<80, 5>>
      [] text = "[128, 5]" -> <<128, 5>>
      [] text = "[80, 0]" -> <<80, 0>>

\* C21: a feature extraction resolves only with a result whose mel-bin
\* count is the requested one and whose time-step count is positive.
C21_FeatureResultValidated ==
    (sp.kind \in {"extractFeatures", "extractFeaturesForTransducer"}
        /\ sp.outcome.kind = "resolved") =>
            /\ ShapeOf(sp.outcome.value)[1] = RequestedMelBins(sp.kind)
            /\ ShapeOf(sp.outcome.value)[2] > 0

(***************************************************************************)
(* Properties of loading, reloading and the transcribe guard               *)
(***************************************************************************)
\* the files the loader of a load needs are all there, the vocabulary
\* included: tokens.txt for the transducers, the tokenizer's files for the
\* split encoder-decoder
RequiredPresent(d, loader) ==
    CASE loader = "loadSherpaOnnxModel" -> Int8Files \subseteq d.files
      [] loader = "loadTransducerModel" ->
             /\ \A f \in TransducerFiles : existsSync(d, transducerPath(d, f))
             /\ existsSync(d, "tokens.txt")
      [] loader = "loadMultiModel" -> WhisperFiles \subseteq d.files /\ d.tokenizer
      [] loader = "loadSingleModel" -> existsSync(d, "model.onnx")
      [] OTHER -> FALSE

\* C22: a load returns success only when every file its architecture
\* requires is present, the vocabulary included.
C22_MissingFileFailsLoad ==
    (ld.pc = "done" /\ ld.result = "success") => RequiredPresent(ld.dir, ld.loader)

\* no model is active: no load was started, or the latest load failed, or
\* cleanup ran last
NoModelActive ==
    \/ ld.id = 0
    \/ ld.pc = "done" /\ ld.result # "success"
    \/ lastCall = "cleanup"

\* C23: a transcribe call made while no model is active throws 'Model not
\* loaded' without converting the audio and without going on to any
\* transcription method.
C23_TranscribeRequiresModel ==
    (NoModelActive /\ dispatched # NoDispatch) => dispatched = Dispatch(TRUE, FALSE, "none")

C23_Witness ==
    /\ lastCall = "cleanup"
    /\ ld.pc = "done"
    /\ ld.result = "success"
    /\ ld.id = MaxLoads
    /\ dispatched = Dispatch(TRUE, FALSE, "none")

\* the sessions the transcription method of an architecture tag runs
RequiredSessions(e) ==
    CASE e.architecture = "transducer" ->
             {e.encoderSession, e.decoderSession, e.joinerSession}
      [] e.architecture = "whisper-multi-model" ->
             {e.encoderSession, e.decoderSession, e.decoderWithPastSession}
      [] e.architecture = "single-model" -> {e.session}
      [] OTHER -> {}

\* C27: whenever isLoaded is true, every session required by the current
\* architecture tag is held, also while a loadModel call is suspended at a
\* session creation.
C27_LoadedImpliesSessions ==
    isLoaded => null \notin RequiredSessions(engine)

(***************************************************************************)
(* Properties of the stored history and of the captured hotkey             *)
(***************************************************************************)
\* C25: the stored history never holds more than 50 entries and is ordered
\* most recent first; an addition to a history of 50 entries puts the new
\* entry first and removes exactly the last (oldest) one.
C25_HistoryBoundedNewestFirst ==
    /\ [](LET history == store.transcriptionHistory
          IN  /\ Len(history) <= historyLimit
              /\ \A i, j \in 1 .. Len(history) :
                     i < j => history[i].timestamp > history[j].timestamp)
    /\ [][(added' = added + 1 /\ Len(store.transcriptionHistory) = historyLimit) =>
             /\ Len(store'.transcriptionHistory) = historyLimit
             /\ store'.transcriptionHistory[1].timestamp = added'
             /\ Tail(store'.transcriptionHistory)
                    = SubSeq(store.transcriptionHistory, 1, historyLimit - 1)]_vars

C25_Witness ==
    /\ added = historyLimit + 1
    /\ Len(store.transcriptionHistory) = historyLimit
    /\ store.transcriptionHistory[1].timestamp = historyLimit + 1
    /\ store.transcriptionHistory[historyLimit].timestamp = 2

\* a hotkey string with at least one modifier
HasModifier(hotkeyString) ==
    \E i \in 1 .. Len(hotkeyString) : hotkeyString[i] \in Modifiers

\* C26: every hotkey string sent to save-settings, and so the stored
\* hotkey, contains at least one modifier.
C26_SavedHotkeyHasModifier ==
    /\ \A i \in 1 .. Len(hk.saved) : HasModifier(hk.saved[i])
    /\ HasModifier(store.hotkey)

(***************************************************************************)
(* Properties of the state a transcription starts from                     *)
(***************************************************************************)
\* C31: once a transducer model is loaded, the vocabulary a
\* greedyTransducerDecode call takes its blank ID from is the token list of
\* that model: it was read by the load that is current, and its last index
\* is the last index of that model's tokens.txt.
C31_BlankIdOfCurrentModel ==
    (lastCall = "loadModel" /\ ld.pc = "done" /\ ld.result = "success"
        /\ ld.loader = "loadTransducerModel") =>
            /\ engine.tokensLoad = ld.id
            /\ ~tokens.null
            /\ blankIdOf(tokens) = ld.dir.tokensLength - 1

(***************************************************************************)
(* Properties of the two caches over the steps of autoregressiveDecode     *)
(***************************************************************************)
\* the cache entries of the tensors of this role that decoder call n output
EntriesFrom(role, n) ==
    {[key |-> replacePresent(key), from |-> n] : key \in PresentKeys(role)}

\* C32: once the first decoder call has returned, the encoder cache holds
\* exactly the cross-attention tensors of that first call, at every later
\* step; the decoder cache holds exactly the self-attention tensors of the
\* latest call.
C32_EncoderCacheFixedDecoderCacheReplaced ==
    ar.calls # <<>> =>
        /\ ar.encoderKeyValues = EntriesFrom("encoder", 1)
        /\ ar.pastKeyValues = EntriesFrom("decoder", Len(ar.calls))

C32_Witness ==
    /\ ar.pc = "done"
    /\ ar.pastEmitsEncoder
    /\ Len(ar.calls) = Len(promptTokensOf(ar.language)) + 3
    /\ ar.encoderKeyValues = EntriesFrom("encoder", 1)
    /\ ar.pastKeyValues = EntriesFrom("decoder", Len(ar.calls))

\* C33: the first decoder call, and only the first, runs the cache-free
\* graph, on the first prompt token and without caches; every later call
\* runs the cache-bearing graph, fed with the encoder cache and with the
\* decoder tensors of the call just before it; the prompt takes four calls.
C33_CacheFreeOnceThenCacheBearing ==
    /\ \A k \in 1 .. Len(ar.calls) :
           IF k = 1
           THEN /\ ar.calls[k].session = "decoder"
                /\ ar.calls[k].input_ids = promptTokensOf(ar.language)[1]
                /\ ar.calls[k].feeds = {}
           ELSE /\ ar.calls[k].session = "decoderWithPast"
                /\ ar.calls[k].feeds
                       = EntriesFrom("encoder", 1) \cup EntriesFrom("decoder", k - 1)
    /\ ar.pc \in {"generate", "done"} =>
           Len(ar.calls) >= Len(promptTokensOf(ar.language))

C33_Witness ==
    /\ ar.pc = "done"
    /\ Len(ar.calls) = Len(promptTokensOf(ar.language)) + 2
    /\ ar.calls[1].session = "decoder"
    /\ ar.calls[Len(ar.calls)].session = "decoderWithPast"
    /\ ar.calls[Len(ar.calls)].feeds
           = EntriesFrom("encoder", 1) \cup EntriesFrom("decoder", Len(ar.calls) - 1)

(***************************************************************************)
(* Properties of the recording and processing flags                        *)
(***************************************************************************)
\* C34: whenever isProcessing is set it is eventually reset to false.
C34_ProcessingEventuallyReset == isProcessing ~> ~isProcessing

C34_Witness ==
    /\ ~isProcessing
    /\ \E h \in Slots : /\ handlers[h].status = "transcribing"
                         /\ handlers[h].safetyTimeout = "fired"
    /\ \A h \in Slots : handlers[h].status # "free" => handlers[h].safetyTimeout = "fired"

\* C35: isRecording and isProcessing are never both true.
C35_NotRecordingWhileProcessing == ~(isRecording /\ isProcessing)

(***************************************************************************)
(* Properties of the activeModel setting                                   *)
(***************************************************************************)
\* C36: whenever no handler is at work and the setting activeModel is
\* present, the engine is loaded, by a successful loadModel of the stored
\* path that no cleanup and no other load has followed.
C36_ActiveModelIsLoaded ==
    (am.pc = "idle" /\ store.activeModel # "null") =>
        /\ isLoaded
        /\ lastCall = "loadModel"
        /\ ld.pc = "done"
        /\ ld.result = "success"
        /\ am.path = store.activeModel

(***************************************************************************)
(* Properties of the two architecture detections                           *)
(***************************************************************************)
\* the architecture a loader sets
architectureOf(loader) ==
    CASE loader = "loadSherpaOnnxModel" -> "sherpa-onnx"
      [] loader = "loadTransducerModel" -> "transducer"
      [] loader = "loadMultiModel" -> "whisper-multi-model"
      [] loader = "loadSingleModel" -> "single-model"
      [] OTHER -> "null"

\* C37: for the directory loadModel was called with, modelExists reports a
\* model exactly when loadModel's detection selects a loader, and then it
\* reports the architecture of that loader.
C37_SameClassification ==
    ld.pc # "idle" =>
        /\ modelExists(ld.dir).exists <=> ld.loader # "throw"
        /\ modelExists(ld.dir).architecture = architectureOf(ld.loader)

C39_NoTempFileRemains ==
    \A n \in Recordings :
        tmp.pc[n] = "done" => webmOf(n) \notin tmp.files /\ wavOf(n) \notin tmp.files

(***************************************************************************)
(* Properties of AutoConverter                                             *)
(***************************************************************************)
\* C40: at most one autoConvert call is between the assignment of
\* isConverting and its finally block, and isConverting is true exactly
\* while there is one.
C40_OneConversionAtATime ==
    /\ Cardinality(Running) <= 1
    /\ cv.isConverting <=> Running # {}
====
